---- MODULE Spec2Model ----
(***************************************************************************)
(* emu2mqtt: the Emu2 bridge between a serial EMU-2 device and an MQTT     *)
(* bus (src/emu2mqtt/emu.py, responses.py).  The asyncio tasks of          *)
(* Emu2.tasks() are modelled at the granularity of their suspension        *)
(* points: one action runs a coroutine from one await to the next, which   *)
(* is the atomicity the single-threaded event loop gives.                  *)
(***************************************************************************)
EXTENDS Integers, Sequences, FiniteSets, TLC

\* ---------------------------------------------------------------- bounds
MaxTime      == 8    \* the events of the environment stop here (seconds)
MaxDrops     == 1    \* transport errors on readline
MaxOpenFails == 2    \* transport errors on open_serial_connection
MaxBusMsgs   == 2    \* inbound bus messages
MaxBusErrs   == 1    \* MqttError occurrences
MaxLines     == 4    \* lines from the device

\* -------------------------------------------------- delays of the program
WritePace       == 3     \* serial_writer: sleep after a write
WriterIdle      == 1     \* serial_writer: sleep while disconnected
ReconnectDelay  == 5     \* connect: sleep after SerialException
ConnectSettle   == 2     \* connect: sleep after a successful open
MqttBackoff     == 5     \* mqtt_reader / mqtt_writer: sleep after MqttError
DisconnectGrace == 1     \* disconnect: sleep before cancelling
DiscoverySettle == 2     \* send_discovery: sleep before send_status
DiscoveryRetry  == 10    \* queue_discovery: sleep while device_info is None
PollOffsetStep  == 5     \* poll_command: poll_offset increment
PollBackoff     == 5     \* poll_command: sleep while disconnected
PriceConfirm    == 3     \* set_current_price: sleep before get_current_price
ReinitFirst     == 10    \* reinitialize: sleep after get_device_info
ReinitSecond    == 5     \* reinitialize: sleep after send_discovery
ReinitEach      == 10    \* reinitialize: sleep after each command
MainSettle      == 2     \* tasks: sleep after get_device_info

\* ------------------------------------------------------------ the tasks
Main == "tasks"
MR   == "mqtt_reader_task"
MW   == "mqtt_writer_task"
SR   == "serial_reader_task"
SW   == "serial_writer_task"
ENT  == "entities_task"

\* poll_command tasks: the command polled and its frequency
Pollers == {"device_task", "connection_task", "time_task", "price_task",
            "summation_task", "current_period_task", "last_period_task"}

PollCommand(p) ==
    CASE p = "device_task"         -> "get_device_info"
      [] p = "connection_task"     -> "get_connection_status"
      [] p = "time_task"           -> "get_time"
      [] p = "price_task"          -> "get_current_price"
      [] p = "summation_task"      -> "get_current_summation_delivered"
      [] p = "current_period_task" -> "get_current_period_usage"
      [] OTHER                     -> "get_last_period_usage"

PollFrequency(p) ==
    CASE p = "device_task"         -> 300
      [] p = "connection_task"     -> 60
      [] p = "time_task"           -> 3600
      [] p = "price_task"          -> 1800
      [] p = "summation_task"      -> 60
      [] p = "current_period_task" -> 60
      [] OTHER                     -> 10800

\* the order in which tasks() creates the tasks, which is the order in which
\* the event loop first runs them
TaskOrder == << MR, MW, SR, SW, "device_task", ENT, "connection_task",
                "time_task", "price_task", "summation_task",
                "current_period_task", "last_period_task" >>

\* the order in which tasks() awaits them
MainAwaits == << MR, MW, SR, SW, "device_task", "time_task", ENT,
                 "connection_task", "price_task", "summation_task",
                 "current_period_task", "last_period_task" >>

\* one disconnect() task per signal handled
Signals == {"SIGTERM", "SIGINT"}

Tasks == {Main, MR, MW, SR, SW, ENT} \cup Pollers \cup Signals

\* how a task has ended: returned, ended by CancelledError, ended by another
\* exception; "absent": a disconnect task not created yet
Ended == {"done", "cancelled", "failed"}

\* --------------------------------------------------------- device lines
\* A line of the device is an opening tag line, a field line, a closing tag
\* line, or bytes that are not valid UTF-8.
Line(t, tag) == [t |-> t, tag |-> tag, val |-> << >>]
\* a field line whose element holds the text val
Field(tag, val) == [t |-> "field", tag |-> tag, val |-> val]
BadBytes == Line("bad", "")

LineAlphabet == { Line("open", "DeviceInfo"), Line("field", "DeviceMacId"),
                  Line("close", "DeviceInfo"), Line("open", "Foo"),
                  Line("close", "Foo"), BadBytes }

\* the direct subclasses of Response
ResponseTypes == {"DeviceInfo", "ConnectionStatus", "Demand",
                  "CurrentSummationDelivered", "CurrentPeriodUsage",
                  "LastPeriodUsage", "InstantaneousDemand", "PriceCluster",
                  "TimeCluster"}

\* the attributes Demand._format converts with to_int
DemandFields == {"Multiplier", "Divisor", "DigitsRight", "DigitsLeft"}

\* the attributes the _format of a class reads after the frame's fields are
\* copied onto the response; reading one that no field set raises
\* AttributeError
RequiredFields(tag) ==
    CASE tag = "ConnectionStatus" -> {"LinkStrength"}
      [] tag = "Demand" -> DemandFields
      [] tag = "CurrentSummationDelivered" ->
             DemandFields \cup {"SummationDelivered", "SummationReceived"}
      [] tag = "CurrentPeriodUsage" -> DemandFields \cup {"CurrentUsage"}
      [] tag = "LastPeriodUsage" -> DemandFields \cup {"LastUsage"}
      [] tag = "InstantaneousDemand" -> DemandFields \cup {"Demand"}
      [] tag = "PriceCluster" -> {"Price", "Currency", "Tier", "TrailingDigits"}
      [] tag = "TimeCluster" -> {"UTCTime", "LocalTime"}
      [] OTHER -> {}

\* snakecase of the tag names used
response_key(tag) ==
    CASE tag = "DeviceInfo"       -> "device_info"
      [] tag = "ConnectionStatus" -> "connection_status"
      [] tag = "TimeCluster"      -> "time_cluster"
      [] tag = "PriceCluster"     -> "price_cluster"
      [] tag = "Demand"           -> "demand"
      [] tag = "CurrentSummationDelivered" -> "current_summation_delivered"
      [] tag = "CurrentPeriodUsage"  -> "current_period_usage"
      [] tag = "LastPeriodUsage"     -> "last_period_usage"
      [] tag = "InstantaneousDemand" -> "instantaneous_demand"
      [] OTHER                    -> tag

\* ------------------------------------------------- responses.py, alone
\* A text is a sequence of characters. The device and the program write
\* numbers as hexadecimal texts.
LowerDigits == << "0", "1", "2", "3", "4", "5", "6", "7", "8", "9",
                  "a", "b", "c", "d", "e", "f" >>
UpperDigits == << "0", "1", "2", "3", "4", "5", "6", "7", "8", "9",
                  "A", "B", "C", "D", "E", "F" >>

\* the value of a hexadecimal digit of either case
HexValue(ch) ==
    (CHOOSE i \in 1..16 : LowerDigits[i] = ch \/ UpperDigits[i] = ch) - 1

RECURSIVE HexNumber(_)
HexNumber(ds) ==
    IF ds = << >> THEN 0
    ELSE HexNumber(SubSeq(ds, 1, Len(ds) - 1)) * 16 + HexValue(ds[Len(ds)])

\* Response.to_int: int(value or '0x00', 16); the 0x prefix is optional
to_int(value) ==
    IF value = << >> THEN 0
    ELSE IF Len(value) >= 2 /\ value[1] = "0" /\ value[2] \in {"x", "X"}
           THEN HexNumber(SubSeq(value, 3, Len(value)))
           ELSE HexNumber(value)

RECURSIVE HexText(_)
HexText(n) ==
    IF n < 16 THEN << UpperDigits[n + 1] >>
    ELSE Append(HexText(n \div 16), UpperDigits[(n % 16) + 1])

\* Response.to_hex: '0x{:X}'.format(number)
to_hex(number) ==
    IF number >= 0 THEN << "0", "x" >> \o HexText(number)
    ELSE << "0", "x", "-" >> \o HexText(0 - number)

\* a price: None, or the number n/d
NoPrice == [none |-> TRUE, n |-> 0, d |-> 1]
Number(n, d) == [none |-> FALSE, n |-> n, d |-> d]

\* 10 ** k: the int 10^k for k >= 0, the float 1/10^(-k) for k < 0
Pow10(k) == IF k >= 0 THEN Number(10 ^ k, 1) ELSE Number(1, 10 ^ (0 - k))

\* the text PriceCluster._format compares the raw price with
Sentinel == << "0", "x", "f", "f", "f", "f", "f", "f", "f", "f" >>

\* mutation of PriceCluster_format: the price is divided by 10 ** trailing_digits
PriceCluster_formatNoCents(price, trailing_digits) ==
    IF price = Sentinel THEN NoPrice
    ELSE IF to_int(price) = 0 THEN Number(0, 1)
    ELSE LET scale == Pow10(to_int(trailing_digits)) IN
         Number(to_int(price) * scale.d, scale.n)

\* PriceCluster._format: the price attribute of the response
PriceCluster_format(price, trailing_digits) ==
    IF price = Sentinel THEN NoPrice
    ELSE IF to_int(price) = 0 THEN Number(0, 1)
    ELSE LET scale == Pow10(to_int(trailing_digits) - 2) IN
         Number(to_int(price) * scale.d, scale.n)

\* a decimal.Decimal that is not negative: the number c * 10^e
Dec(c, e) == [c |-> c, e |-> e]

RECURSIVE DecNumber(_)
DecNumber(ds) ==
    IF ds = << >> THEN 0
    ELSE DecNumber(SubSeq(ds, 1, Len(ds) - 1)) * 10 + HexValue(ds[Len(ds)])

\* decimal.Decimal(text) for a text of digits with at most one point
Decimal(text) ==
    IF \E i \in 1..Len(text) : text[i] = "."
      THEN LET dot == CHOOSE i \in 1..Len(text) : text[i] = "." IN
           Dec(DecNumber(SubSeq(text, 1, dot - 1) \o SubSeq(text, dot + 1, Len(text))),
               dot - Len(text))
      ELSE Dec(DecNumber(text), 0)

\* Decimal.normalize: no trailing zeros in the coefficient; zero is 0E+0
RECURSIVE normalize(_)
normalize(x) ==
    IF x.c = 0 THEN Dec(0, 0)
    ELSE IF x.c % 10 = 0 THEN normalize(Dec(x.c \div 10, x.e + 1))
    ELSE x

\* what format_price returns, or that it raised
Raised == [raised |-> TRUE, price |-> << >>, trailing_digits |-> << >>]
Returned(price, digits) == [raised |-> FALSE, price |-> price, trailing_digits |-> digits]

\* Response.format_price. Decimal(cents) / 100 is exact and is normalized
\* before each use, so it is taken as c * 10^(e - 2). rotate(-digits) keeps
\* the exponent and rotates the coefficient within the 28 digits of the
\* context: for digits <= 0 it appends -digits zeros, which normalize and str
\* turn into the text of the coefficient; for digits > 0 it moves the last
\* digits, of which the very last is not zero, to the front of the 28, and
\* the str of a Decimal with a positive exponent is in scientific notation
\* ('1E+28'), which int() rejects with ValueError.
format_price(cents) ==
    LET price == normalize(Dec(Decimal(cents).c, Decimal(cents).e - 2))
        digits == price.e
    IN IF digits > 0 THEN Raised
       ELSE Returned(to_hex(price.c), to_hex(0 - digits))

\* ------------------------------ TimeCluster._format and Demand._format
\* an attribute of a response: not set, the text of the frame's element
\* (None for an empty element), or an int
Absent == [kind |-> "absent", text |-> << >>, n |-> 0]
TextAttr(s) == [kind |-> "text", text |-> s, n |-> 0]
IntAttr(n) == [kind |-> "int", text |-> << >>, n |-> n]

\* Emu2 has no attribute time_cluster until a TimeCluster frame is decoded
NoTimeCluster == [id |-> 0, local_time_offset |-> 0]

\* arrow.now().timestamp() + utcoffset when the clock of the loop is at 0
WallEpoch == 1000

\* TimeCluster._format: the response id with its local_time_offset, when
\* the clock of the loop is at
TimeCluster_format(local_time, id, at) ==
    [id |-> id, local_time_offset |-> (WallEpoch + at) - to_int(local_time)]

\* start_date is rounded down to a multiple of
StartDateStep == 300

\* mutation of Demand_date: the reported value is rounded down, then shifted
Demand_dateAlignsReported(attr, tc, align) ==
    IF tc.id # 0 /\ attr.kind = "text" /\ attr.text # << >>
      THEN LET reported == to_int(attr.text) IN
           [value |-> IntAttr(IF align
                                THEN (reported - (reported % StartDateStep))
                                         + tc.local_time_offset
                                ELSE reported + tc.local_time_offset),
            reported |-> IntAttr(reported)]
      ELSE [value |-> attr, reported |-> Absent]

\* one of the conversions of Demand._format: the attribute and its
\* reported_ twin, given the time_cluster of the emu
Demand_date(attr, tc, align) ==
    IF tc.id # 0 /\ attr.kind = "text" /\ attr.text # << >>
      THEN LET reported == to_int(attr.text)
               shifted == reported + tc.local_time_offset
           IN [value |-> IntAttr(IF align THEN shifted - (shifted % StartDateStep)
                                      ELSE shifted),
               reported |-> IntAttr(reported)]
      ELSE [value |-> attr, reported |-> Absent]

\* Demand._format: the time attributes of the response
Demand_format(time_stamp, start_date, end_date, tc) ==
    [ local_time_offset |-> IF tc.id # 0 THEN IntAttr(tc.local_time_offset) ELSE Absent,
      time_stamp |-> Demand_date(time_stamp, tc, FALSE).value,
      reported_time_stamp |-> Demand_date(time_stamp, tc, FALSE).reported,
      start_date |-> Demand_date(start_date, tc, TRUE).value,
      reported_start_date |-> Demand_date(start_date, tc, TRUE).reported,
      end_date |-> Demand_date(end_date, tc, FALSE).value,
      reported_end_date |-> Demand_date(end_date, tc, FALSE).reported ]

\* the time attributes of a response that is not of the Demand family
NoBody == Demand_format(Absent, Absent, Absent, NoTimeCluster)

\* the subclasses of Demand, and Demand
DemandTypes == {"Demand", "CurrentSummationDelivered", "CurrentPeriodUsage",
                "LastPeriodUsage", "InstantaneousDemand"}
DateFields == {"TimeStamp", "StartDate", "EndDate"}

\* Response._format: the attribute the frame's element named tag sets
Element(buf, tag) ==
    IF \E i \in 2..(Len(buf) - 1) : buf[i].tag = tag
      THEN TextAttr(buf[CHOOSE i \in 2..(Len(buf) - 1) : buf[i].tag = tag].val)
      ELSE Absent

\* the time attributes of the response built from the frame, given the
\* time_cluster of the emu and the clock of the loop
Attributes(buf, tc, at) ==
    IF buf[1].tag \in DemandTypes
      THEN Demand_format(Element(buf, "TimeStamp"), Element(buf, "StartDate"),
                         Element(buf, "EndDate"), tc)
      ELSE IF buf[1].tag = "TimeCluster"
             THEN [NoBody EXCEPT !.local_time_offset =
                     IntAttr(TimeCluster_format(Element(buf, "LocalTime").text, 0,
                                                at).local_time_offset)]
             ELSE NoBody

VARIABLES
    now,            \* the clock of the event loop, in seconds
    pc,             \* task -> where it is suspended, or how it ended
    wake,           \* task -> the time its sleep ends (0: not sleeping)
    cancelReq,      \* tasks with a CancelledError to be thrown at their await
    started,        \* how many tasks of TaskOrder have run their first step
    mainAt,         \* index in MainAwaits of the task tasks() awaits
    cleaned,        \* asyncio.run has cancelled what was left
    connected,      \* Emu2.connected
    disconnecting,  \* Emu2.disconnecting
    writer,         \* Emu2.writer: "none", "open", "closed"
    device_info,    \* Emu2.device_info: 0 (None) or the id of the response
    time_cluster,   \* Emu2.time_cluster: the TimeCluster response, once set
    poll_offset,    \* Emu2.poll_offset
    buffer,         \* serial_reader's buffer: the lines accumulated
    mqtt_queue,     \* Device->Bus queue
    serial_queue,   \* Bus->Device queue
    marker,         \* the healthcheck file exists
    held,           \* mqtt_writer: the event taken from the queue, in publish
    riStep,         \* reinitialize: index of the next command of its loop
    inbox,          \* mqtt_reader: client.messages, received and not yet handled
    env,            \* what the environment may still do
    nCmd,           \* commands put on serial_queue so far
    nMsg,           \* messages put on mqtt_queue so far
    written,        \* the writes on the device link: [id, name, at, conn]
    published,      \* the ids published to the bus, in order
    obs,            \* observations of the run the properties refer to
    calc            \* a function of responses.py applied alone: arguments, result

vars == << now, pc, wake, cancelReq, started, mainAt, cleaned, connected,
           disconnecting, writer, device_info, time_cluster, poll_offset, buffer,
           mqtt_queue, serial_queue, marker, held, riStep, inbox, env, nCmd, nMsg,
           written, published, obs, calc >>

\* ---------------------------------------------------------------- helpers
Running == started = Len(TaskOrder)
Turn(t) == started < Len(TaskOrder) /\ TaskOrder[started + 1] = t /\ pc[t] = "new"
Due(t)  == wake[t] # 0 /\ wake[t] <= now
Live(t) == pc[t] \notin Ended \cup {"absent"}

\* mutation of healthcheck_op: the file is written whenever the device is
\* connected, and unlinked only when it exists
healthcheck_rewrites(conn, exists) ==
    IF conn THEN "write"
    ELSE IF exists THEN "unlink"
    ELSE "none"

\* Emu2.healthcheck_status: what is done to the healthcheck file, given
\* self.connected and whether the file exists
healthcheck_op(conn, exists) ==
    IF conn /\ ~exists THEN "write"
    ELSE IF ~conn /\ exists THEN "unlink"
    ELSE "none"

\* Emu2.healthcheck_status: the marker after the call
healthcheck_status(conn, exists) ==
    CASE healthcheck_op(conn, exists) = "write"  -> TRUE
      [] healthcheck_op(conn, exists) = "unlink" -> FALSE
      [] OTHER -> exists

\* responses.Status
Status(conn, id) == [kind |-> "status", conn |-> conn, id |-> id]
\* a decoded Response, or the MqttMessages of one send_discovery
Message(kind, id) == [kind |-> kind, conn |-> FALSE, id |-> id, body |-> NoBody]

\* Emu2.send_status, with the value of self.connected at the call
send_status(conn) ==
    /\ mqtt_queue' = Append(mqtt_queue, Status(conn, nMsg + 1))
    /\ nMsg' = nMsg + 1
    /\ marker' = healthcheck_status(conn, marker)

\* the commands that are sent whether or not device_info is set
Ungated == {"get_device_info", "get_time", "restart"}

\* mutation of Commands: the methods do not look at device_info
CommandsUngated(names) == names

\* the get_* / restart / close_current_period methods: the command names
\* that reach send_command when the methods named are called in order
Commands(names) ==
    SelectSeq(names, LAMBDA n : n \in Ungated \/ device_info # 0)

\* Emu2.send_command, for a sequence of commands
send_commands(names) ==
    /\ serial_queue' = serial_queue \o
           [i \in 1..Len(names) |->
               [name |-> names[i], id |-> nCmd + i, text |-> names[i]]]
    /\ nCmd' = nCmd + Len(names)

\* mqtt_reader: self.serial_queue.put_nowait(payload)
put_payload(payload) ==
    /\ serial_queue' = Append(serial_queue,
           [name |-> "raw", id |-> nCmd + 1, text |-> payload])
    /\ nCmd' = nCmd + 1

\* pc and wake of task t: suspended at l, sleeping d seconds (0: no sleep)
At(t, l, d) ==
    /\ pc' = [pc EXCEPT ![t] = l]
    /\ wake' = [wake EXCEPT ![t] = IF d = 0 THEN 0 ELSE now + d]

\* xmltodict.parse succeeds on the buffer: one root element with fields
WellFormed(buf) ==
    /\ Len(buf) >= 2
    /\ buf[1].t = "open"
    /\ buf[Len(buf)].t = "close"
    /\ buf[1].tag = buf[Len(buf)].tag
    /\ \A i \in 2..(Len(buf) - 1) : buf[i].t = "field"

\* mutation of Decodes: the factory builds a response for any tag
DecodesAnyTag(buf) ==
    /\ WellFormed(buf)
    /\ Len(buf) >= 3

\* the elements whose attribute the _format of the class converts with
\* to_int: the required ones and, once the emu has a time_cluster, the dates
Converted(tag) ==
    RequiredFields(tag) \cup
        (IF tag \in DemandTypes /\ time_cluster.id # 0 THEN DateFields ELSE {})

\* how many elements of the frame are named tag
Occurrences(buf, tag) == Cardinality({i \in 2..(Len(buf) - 1) : buf[i].tag = tag})

\* ResponseFactory(xmltodict.parse(buffer), emu=self) returns a response; an
\* element that occurs twice is parsed to a list, which to_int rejects
Decodes(buf) ==
    /\ WellFormed(buf)
    /\ buf[1].tag \in ResponseTypes
    /\ Len(buf) >= 3
    /\ RequiredFields(buf[1].tag) \subseteq {buf[i].tag : i \in 2..(Len(buf) - 1)}
    /\ \A f \in Converted(buf[1].tag) : Occurrences(buf, f) <= 1

\* mutation of setattr: a response replaces the fact of any name
setattrAnyKey(fact, key, tag, response) == response

\* mutation of setattr: the first response of a name is kept
setattrFirstWins(fact, key, tag, response) ==
    IF response_key(tag) = key /\ fact = NoTimeCluster THEN response ELSE fact

\* serial_reader: setattr(self, response.response_key, response), seen from
\* the attribute named key
setattr(fact, key, tag, response) ==
    IF response_key(tag) = key THEN response ELSE fact

\* mutation of after_frame: a text that was rejected stays in the buffer
after_frameKeepsRejected(buf) == IF Decodes(buf) THEN << >> ELSE buf

\* serial_reader: buffer = '' after the try and in its except clause
after_frame(buf) == << >>

\* ------------------------------------------------------------------ Init
\* no time, or no gap, observed yet
NoTime == 0 - 1

\* the smaller of the gap observed so far and the gap since time t
MinGap(gap, t) ==
    IF t = NoTime THEN gap
    ELSE IF gap = NoTime \/ now - t < gap THEN now - t ELSE gap

InitObs == [ episode |-> FALSE, falseByReader |-> 0, falseByOther |-> 0,
             removed |-> 0, statusAtAttempt |-> 0, lastStatus |-> "none",
             lastFail |-> NoTime, retryGap |-> NoTime,
             lastWrite |-> NoTime, writeGap |-> NoTime,
             announced |-> TRUE, handled |-> << >>, pubAtError |-> NoTime,
             dropped |-> {}, arrived |-> << >>,
             atSignal |-> [t \in {MR, MW, SR, SW} |-> "none"],
             markerOps |-> 0, lastFrame |-> << >>, stale |-> 0,
             reinit |-> [calls |-> << >>, done |-> FALSE] ]

\* what the environment may do in a run: how many transport errors, lines,
\* bus messages and bus errors, which lines, topics, payloads and signals,
\* and when its events stop
Env(drops, opens, lines, alphabet, msgs, topics, payloads, errs, sigs, end) ==
    [ drops |-> drops, openFails |-> opens, lines |-> lines,
      alphabet |-> alphabet, busMsgs |-> msgs, topics |-> topics,
      payloads |-> payloads, busErrs |-> errs, signals |-> sigs,
      horizon |-> end ]

InitProgram(e) ==
    /\ now = 0
    /\ pc = [t \in Tasks |-> IF t = Main THEN "await"
                             ELSE IF t \in Signals THEN "absent" ELSE "new"]
    /\ wake = [t \in Tasks |-> 0]
    /\ cancelReq = {}
    /\ started = 0
    /\ mainAt = 1
    /\ cleaned = FALSE
    /\ connected = FALSE
    /\ disconnecting = FALSE
    /\ writer = "none"
    /\ device_info = 0
    /\ time_cluster = NoTimeCluster
    /\ poll_offset = 0
    /\ buffer = << >>
    /\ mqtt_queue = << >>
    /\ serial_queue = << >>
    /\ marker = FALSE
    /\ held = << >>
    /\ riStep = 0
    /\ inbox = << >>
    /\ env = e
    /\ nCmd = 0
    /\ nMsg = 0
    /\ written = << >>
    /\ published = << >>
    /\ obs = InitObs

\* no function is applied alone
NoCall == [op |-> "none"]

\* the program after construction; the functions of responses.py are called
\* by the tasks only
InitWith(e) == InitProgram(e) /\ calc = NoCall

\* ------------------------------------------------------------------ time
\* The clock advances when no sleep that has ended is still to be served.
\* The events of the environment stop at the horizon; during a shutdown the
\* clock runs on until the sleeps that are left have ended.
Tick ==
    /\ Running
    /\ \/ now < env.horizon
       \/ disconnecting /\ \E t \in Tasks : Live(t) /\ wake[t] > now
    /\ \A t \in Tasks : ~Due(t)
    /\ now' = now + 1
    /\ UNCHANGED << calc, time_cluster, pc, wake, cancelReq, started, mainAt, cleaned, connected,
                    disconnecting, writer, device_info, poll_offset, buffer,
                    mqtt_queue, serial_queue, marker, held, riStep, inbox, env, nCmd,
                    nMsg, written, published, obs >>

\* --------------------------------------------------------- serial_reader
\* the observation of self.connected being set: a change of its value is
\* not announced until a status event carries the new value
ObsConn(o, conn) ==
    IF conn # connected THEN [o EXCEPT !.announced = FALSE] ELSE o

\* the observation of a status event put by send_status
ObsStatus(o, conn, byReader) ==
    [o EXCEPT !.lastStatus = IF conn THEN "up" ELSE "down",
              !.announced = TRUE,
              !.falseByReader = IF o.episode /\ ~conn /\ byReader THEN @ + 1 ELSE @,
              !.falseByOther = IF o.episode /\ ~conn /\ ~byReader THEN @ + 1 ELSE @,
              !.removed = IF o.episode /\ marker /\ ~healthcheck_status(conn, marker)
                          THEN @ + 1 ELSE @,
              !.markerOps = IF healthcheck_op(conn, marker) # "none"
                            THEN @ + 1 ELSE @]

\* serial_reader runs up to its first await: connect() opens the link
SrStart ==
    /\ Turn(SR)
    /\ started' = started + 1
    /\ At(SR, "open", 0)
    /\ UNCHANGED << calc, time_cluster, now, cancelReq, mainAt, cleaned, connected, disconnecting,
                    writer, device_info, poll_offset, buffer, mqtt_queue,
                    serial_queue, marker, held, riStep, inbox, env, nCmd, nMsg,
                    written, published, obs >>

\* connect: open_serial_connection returns
SrOpenOk ==
    /\ Running /\ pc[SR] = "open"
    /\ writer' = "open"
    /\ connected' = TRUE
    /\ At(SR, "settle", ConnectSettle)
    /\ obs' = ObsConn([obs EXCEPT !.episode = FALSE], TRUE)
    /\ UNCHANGED << calc, time_cluster, now, cancelReq, started, mainAt, cleaned, disconnecting,
                    device_info, poll_offset, buffer, mqtt_queue, serial_queue,
                    marker, held, riStep, inbox, env, nCmd, nMsg, written, published >>

\* mutation of SrOpenFail: the next attempt comes after the shorter delay
SrOpenFailShortDelay ==
    /\ Running /\ pc[SR] = "open"
    /\ env.openFails > 0 /\ now + ReconnectDelay <= env.horizon
    /\ env' = [env EXCEPT !.openFails = @ - 1]
    /\ At(SR, "retry", ConnectSettle)
    /\ obs' = [obs EXCEPT !.lastFail = now]
    /\ UNCHANGED << calc, time_cluster, now, cancelReq, started, mainAt, cleaned, connected,
                    disconnecting, writer, device_info, poll_offset, buffer,
                    mqtt_queue, serial_queue, marker, held, riStep, inbox, nCmd,
                    nMsg, written, published >>

\* connect: open_serial_connection raises SerialException
SrOpenFail ==
    /\ Running /\ pc[SR] = "open"
    /\ env.openFails > 0 /\ now + ReconnectDelay <= env.horizon
    /\ env' = [env EXCEPT !.openFails = @ - 1]
    /\ At(SR, "retry", ReconnectDelay)
    /\ obs' = [obs EXCEPT !.lastFail = now]
    /\ UNCHANGED << calc, time_cluster, now, cancelReq, started, mainAt, cleaned, connected,
                    disconnecting, writer, device_info, poll_offset, buffer,
                    mqtt_queue, serial_queue, marker, held, riStep, inbox, nCmd,
                    nMsg, written, published >>

\* connect: the sleep after a successful open ends; send_status, return True,
\* and serial_reader tests its loop condition
SrSettled ==
    /\ pc[SR] = "settle" /\ Due(SR)
    /\ send_status(connected)
    /\ IF disconnecting
         THEN /\ connected' = FALSE
              /\ obs' = ObsConn(ObsStatus(obs, connected, TRUE), FALSE)
              /\ At(SR, "done", 0)
         ELSE /\ UNCHANGED connected
              /\ obs' = ObsStatus(obs, connected, TRUE)
              /\ At(SR, "readline", 0)
    /\ UNCHANGED << calc, time_cluster, now, cancelReq, started, mainAt, cleaned, disconnecting,
                    writer, device_info, poll_offset, buffer, serial_queue,
                    held, riStep, inbox, env, nCmd, written, published >>

\* connect: the sleep after a SerialException ends; the loop of connect tests
\* disconnecting, and when it is set connect returns and serial_reader ends
SrRetry ==
    /\ pc[SR] = "retry" /\ Due(SR)
    /\ IF disconnecting
         THEN /\ connected' = FALSE
              /\ At(SR, "done", 0)
              /\ UNCHANGED obs
         ELSE /\ UNCHANGED connected
              /\ At(SR, "open", 0)
              /\ obs' = [obs EXCEPT !.retryGap = MinGap(@, obs.lastFail)]
    /\ UNCHANGED << calc, time_cluster, now, cancelReq, started, mainAt, cleaned, disconnecting,
                    writer, device_info, poll_offset, buffer, mqtt_queue,
                    serial_queue, marker, held, riStep, inbox, env, nCmd, nMsg,
                    written, published >>

\* readline returns a line: decode, strip, append; a closing tag completes a
\* frame, which is parsed, decoded, cached and queued, or else discarded
SrLine(l) ==
    /\ Running /\ pc[SR] = "readline" /\ SR \notin cancelReq
    /\ env.lines > 0 /\ l \in env.alphabet
    /\ env' = [env EXCEPT !.lines = @ - 1]
    /\ IF l.t = "bad"
         THEN \* line.decode('utf-8') raises UnicodeDecodeError outside the try
              /\ At(SR, "failed", 0)
              /\ UNCHANGED << buffer, device_info, time_cluster, mqtt_queue, nMsg,
                              connected, obs >>
         ELSE LET buf == Append(buffer, l)
                  \* the text handed to the parser by the last closing line
                  seen == IF l.t = "close"
                            THEN [obs EXCEPT !.lastFrame = buf, !.stale = 0]
                            ELSE obs
              IN
              /\ IF l.t = "close"
                   THEN /\ buffer' = after_frame(buf)
                        /\ IF Decodes(buf)
                             THEN /\ mqtt_queue' = Append(mqtt_queue,
                                         [Message(response_key(buf[1].tag), nMsg + 1)
                                            EXCEPT !.body = Attributes(buf, time_cluster, now)])
                                  /\ nMsg' = nMsg + 1
                                  /\ device_info' = setattr(device_info, "device_info",
                                                            buf[1].tag, nMsg + 1)
                                  /\ time_cluster' = setattr(time_cluster, "time_cluster",
                                         buf[1].tag,
                                         TimeCluster_format(Element(buf, "LocalTime").text,
                                                            nMsg + 1, now))
                             ELSE UNCHANGED << mqtt_queue, nMsg, device_info, time_cluster >>
                   ELSE /\ buffer' = buf
                        /\ UNCHANGED << mqtt_queue, nMsg, device_info, time_cluster >>
              /\ IF disconnecting
                   THEN /\ connected' = FALSE
                        /\ obs' = ObsConn(seen, FALSE)
                        /\ At(SR, "done", 0)
                   ELSE /\ UNCHANGED connected
                        /\ obs' = seen
                        /\ At(SR, "readline", 0)
    /\ UNCHANGED << calc, now, cancelReq, started, mainAt, cleaned, disconnecting,
                    writer, poll_offset, serial_queue, marker, held, riStep, inbox,
                    nCmd, written, published >>

\* mutation of SrDrop: the reader reconnects without a status event
SrDropSilent ==
    /\ Running /\ pc[SR] = "readline" /\ SR \notin cancelReq
    /\ env.drops > 0
    /\ env' = [env EXCEPT !.drops = @ - 1]
    /\ connected' = FALSE
    /\ UNCHANGED << mqtt_queue, nMsg, marker >>
    /\ obs' = ObsConn([obs EXCEPT !.episode = TRUE, !.falseByReader = 0,
                          !.falseByOther = 0, !.removed = 0,
                          !.statusAtAttempt = 0, !.stale = Len(buffer)], FALSE)
    /\ IF disconnecting
         THEN At(SR, "done", 0)
         ELSE At(SR, "open", 0)
    /\ UNCHANGED << calc, time_cluster, now, cancelReq, started, mainAt, cleaned, disconnecting,
                    writer, device_info, poll_offset, buffer, serial_queue,
                    held, riStep, inbox, nCmd, written, published >>

\* readline raises SerialException: mark disconnected, send_status, connect
SrDrop ==
    /\ Running /\ pc[SR] = "readline" /\ SR \notin cancelReq
    /\ env.drops > 0
    /\ env' = [env EXCEPT !.drops = @ - 1]
    /\ connected' = FALSE
    /\ send_status(FALSE)
    /\ LET o == ObsStatus(ObsConn([obs EXCEPT !.episode = TRUE,
                                      !.falseByReader = 0, !.falseByOther = 0,
                                      !.removed = 0], FALSE),
                          FALSE, TRUE)
       IN  \* the lines in the buffer were read before this error
           obs' = [o EXCEPT !.statusAtAttempt = o.falseByReader,
                            !.stale = Len(buffer)]
    /\ IF disconnecting
         THEN At(SR, "done", 0)
         ELSE At(SR, "open", 0)
    /\ UNCHANGED << calc, time_cluster, now, cancelReq, started, mainAt, cleaned, disconnecting,
                    writer, device_info, poll_offset, buffer, serial_queue,
                    held, riStep, inbox, nCmd, written, published >>

\* mutation of SrCancelled: the loop goes on whatever disconnecting is
SrCancelledKeepsReading ==
    /\ pc[SR] = "readline" /\ SR \in cancelReq
    /\ cancelReq' = cancelReq \ {SR}
    /\ connected' = FALSE
    /\ send_status(FALSE)
    /\ obs' = ObsStatus(ObsConn(obs, FALSE), FALSE, TRUE)
    /\ At(SR, "readline", 0)
    /\ UNCHANGED << calc, time_cluster, now, started, mainAt, cleaned, disconnecting, writer,
                    device_info, poll_offset, buffer, serial_queue, held,
                    riStep, inbox, env, nCmd, written, published >>

\* readline raises CancelledError: mark disconnected, send_status, continue
SrCancelled ==
    /\ pc[SR] = "readline" /\ SR \in cancelReq
    /\ cancelReq' = cancelReq \ {SR}
    /\ connected' = FALSE
    /\ send_status(FALSE)
    /\ obs' = ObsStatus(ObsConn(obs, FALSE), FALSE, TRUE)
    /\ IF disconnecting
         THEN At(SR, "done", 0)
         ELSE At(SR, "readline", 0)
    /\ UNCHANGED << calc, time_cluster, now, started, mainAt, cleaned, disconnecting, writer,
                    device_info, poll_offset, buffer, serial_queue, held,
                    riStep, inbox, env, nCmd, written, published >>

serial_reader ==
    \/ SrStart \/ SrOpenOk \/ SrOpenFail \/ SrSettled \/ SrRetry
    \/ (\E l \in LineAlphabet : SrLine(l)) \/ SrDrop \/ SrCancelled

\* --------------------------------------------------------- serial_writer
\* a writer that takes the newest command of the queue
DoWriteNewest ==
    LET n == Len(serial_queue) IN
    /\ serial_queue' = SubSeq(serial_queue, 1, n - 1)
    /\ written' = Append(written, [id |-> serial_queue[n].id,
                                   name |-> serial_queue[n].name,
                                   conn |-> connected])
    /\ obs' = [obs EXCEPT !.lastWrite = now,
                          !.writeGap = MinGap(@, obs.lastWrite)]
    /\ At(SW, "drain", 0)

\* self.writer.write(command): the head of serial_queue goes to the link
DoWrite ==
    /\ serial_queue' = Tail(serial_queue)
    /\ written' = Append(written, [id |-> Head(serial_queue).id,
                                   name |-> Head(serial_queue).name,
                                   conn |-> connected])
    /\ obs' = [obs EXCEPT !.lastWrite = now,
                          !.writeGap = MinGap(@, obs.lastWrite)]
    /\ At(SW, "drain", 0)

\* the top of serial_writer's loop, up to the next await
WriterLoop ==
    IF disconnecting
      THEN \* the loop ends: close the writer if there is one
           /\ writer' = IF writer # "none" THEN "closed" ELSE writer
           /\ At(SW, "done", 0)
           /\ UNCHANGED << serial_queue, written, obs >>
      ELSE IF connected
             THEN /\ UNCHANGED writer
                  /\ IF serial_queue # << >>
                       THEN DoWrite
                       ELSE /\ At(SW, "get", 0)
                            /\ UNCHANGED << serial_queue, written, obs >>
             ELSE /\ At(SW, "idle", WriterIdle)
                  /\ UNCHANGED << writer, serial_queue, written, obs >>

SwStart ==
    /\ Turn(SW)
    /\ started' = started + 1
    /\ WriterLoop
    /\ UNCHANGED << calc, time_cluster, now, cancelReq, mainAt, cleaned, connected, disconnecting,
                    device_info, poll_offset, buffer, mqtt_queue, marker, held,
                    riStep, inbox, env, nCmd, nMsg, published >>

\* serial_queue.get() returns: write, without looking at connected again
SwGet ==
    /\ pc[SW] = "get" /\ SW \notin cancelReq
    /\ serial_queue # << >>
    /\ DoWrite
    /\ UNCHANGED << calc, time_cluster, now, cancelReq, started, mainAt, cleaned, connected,
                    disconnecting, writer, device_info, poll_offset, buffer,
                    mqtt_queue, marker, held, riStep, inbox, env, nCmd, nMsg,
                    published >>

\* a writer whose sleep after a write is the idle sleep
SwDrainedShortPace ==
    /\ pc[SW] = "drain" /\ SW \notin cancelReq
    /\ At(SW, "pace", WriterIdle)
    /\ UNCHANGED << calc, time_cluster, now, cancelReq, started, mainAt, cleaned, connected,
                    disconnecting, writer, device_info, poll_offset,
                    buffer, mqtt_queue, serial_queue, marker, held, riStep, inbox,
                    env, nCmd, nMsg, written, published, obs >>

\* writer.drain() returns: the pacing sleep starts
SwDrained ==
    /\ pc[SW] = "drain" /\ SW \notin cancelReq
    /\ At(SW, "pace", WritePace)
    /\ UNCHANGED << calc, time_cluster, now, cancelReq, started, mainAt, cleaned, connected,
                    disconnecting, writer, device_info, poll_offset, buffer,
                    mqtt_queue, serial_queue, marker, held, riStep, inbox, env, nCmd,
                    nMsg, written, published, obs >>

\* the pacing sleep, or the sleep while disconnected, ends
SwWake ==
    /\ pc[SW] \in {"pace", "idle"} /\ Due(SW)
    /\ WriterLoop
    /\ UNCHANGED << calc, time_cluster, now, cancelReq, started, mainAt, cleaned, connected,
                    disconnecting, device_info, poll_offset, buffer,
                    mqtt_queue, marker, held, riStep, inbox, env, nCmd, nMsg,
                    published >>

\* CancelledError at an await of the loop: close the writer and wait
SwCancelled ==
    /\ pc[SW] \in {"get", "drain", "pace", "idle"} /\ SW \in cancelReq
    /\ cancelReq' = cancelReq \ {SW}
    /\ IF writer # "none"
         THEN /\ writer' = "closed"
              /\ At(SW, "closing", 0)
              /\ UNCHANGED << serial_queue, written, obs >>
         ELSE WriterLoop
    /\ UNCHANGED << calc, time_cluster, now, started, mainAt, cleaned, connected, disconnecting,
                    device_info, poll_offset, buffer, mqtt_queue, marker, held,
                    riStep, inbox, env, nCmd, nMsg, published >>

\* writer.wait_closed() returns
SwClosed ==
    /\ pc[SW] = "closing"
    /\ WriterLoop
    /\ UNCHANGED << calc, time_cluster, now, cancelReq, started, mainAt, cleaned, connected,
                    disconnecting, device_info, poll_offset, buffer,
                    mqtt_queue, marker, held, riStep, inbox, env, nCmd, nMsg,
                    published >>

serial_writer ==
    \/ SwStart \/ SwGet \/ SwDrained \/ SwWake \/ SwCancelled \/ SwClosed

\* ----------------------------------------------------------- mqtt_writer
\* the top of mqtt_writer's outer loop
MwLoop == IF disconnecting THEN At(MW, "done", 0) ELSE At(MW, "mw_connect", 0)

\* mutation of MwNext: the event put last is taken first
MwNextNewest ==
    IF mqtt_queue # << >>
      THEN /\ held' = << mqtt_queue[Len(mqtt_queue)] >>
           /\ mqtt_queue' = SubSeq(mqtt_queue, 1, Len(mqtt_queue) - 1)
           /\ At(MW, "publish", 0)
      ELSE /\ held' = << >>
           /\ At(MW, "mq_get", 0)
           /\ UNCHANGED mqtt_queue

\* the inner loop: mqtt_queue.get(), then publish
MwNext ==
    IF mqtt_queue # << >>
      THEN /\ held' = << Head(mqtt_queue) >>
           /\ mqtt_queue' = Tail(mqtt_queue)
           /\ At(MW, "publish", 0)
      ELSE /\ held' = << >>
           /\ At(MW, "mq_get", 0)
           /\ UNCHANGED mqtt_queue

MwStart ==
    /\ Turn(MW)
    /\ started' = started + 1
    /\ MwLoop
    /\ UNCHANGED << calc, time_cluster, now, cancelReq, mainAt, cleaned, connected, disconnecting,
                    writer, device_info, poll_offset, buffer, mqtt_queue,
                    serial_queue, marker, held, riStep, inbox, env, nCmd, nMsg,
                    written, published, obs >>

\* the client connects to the broker
MwConnected ==
    /\ Running /\ pc[MW] = "mw_connect"
    /\ MwNext
    /\ UNCHANGED << calc, time_cluster, now, cancelReq, started, mainAt, cleaned, connected,
                    disconnecting, writer, device_info, poll_offset, buffer,
                    serial_queue, marker, riStep, inbox, env, nCmd, nMsg, written,
                    published, obs >>

\* mutation of MwError: the event in flight is put back on the queue
MwErrorRequeues ==
    /\ Running /\ pc[MW] \in {"mw_connect", "publish", "final"}
    /\ MW \notin cancelReq
    /\ env.busErrs > 0 /\ now + MqttBackoff <= env.horizon
    /\ env' = [env EXCEPT !.busErrs = @ - 1]
    /\ held' = << >>
    /\ mqtt_queue' = held \o mqtt_queue
    /\ At(MW, "mw_backoff", MqttBackoff)
    /\ obs' = [obs EXCEPT !.pubAtError = Len(published),
                          !.dropped = @ \cup {held[k].id : k \in 1..Len(held)}]
    /\ UNCHANGED << calc, time_cluster, now, cancelReq, started, mainAt, cleaned, connected,
                    disconnecting, writer, device_info, poll_offset, buffer,
                    serial_queue, marker, riStep, inbox, nCmd, nMsg,
                    written, published >>

\* MqttError while connecting, publishing, or publishing the final status:
\* the event in flight is dropped, and the writer sleeps before reconnecting
MwError ==
    /\ Running /\ pc[MW] \in {"mw_connect", "publish", "final"}
    /\ MW \notin cancelReq
    /\ env.busErrs > 0 /\ now + MqttBackoff <= env.horizon
    /\ env' = [env EXCEPT !.busErrs = @ - 1]
    /\ held' = << >>
    /\ At(MW, "mw_backoff", MqttBackoff)
    /\ obs' = [obs EXCEPT !.pubAtError = Len(published),
                          !.dropped = @ \cup {held[k].id : k \in 1..Len(held)}]
    /\ UNCHANGED << calc, time_cluster, now, cancelReq, started, mainAt, cleaned, connected,
                    disconnecting, writer, device_info, poll_offset, buffer,
                    mqtt_queue, serial_queue, marker, riStep, inbox, nCmd, nMsg,
                    written, published >>

MwBackoff ==
    /\ pc[MW] = "mw_backoff" /\ Due(MW)
    /\ MwLoop
    /\ UNCHANGED << calc, time_cluster, now, cancelReq, started, mainAt, cleaned, connected,
                    disconnecting, writer, device_info, poll_offset, buffer,
                    mqtt_queue, serial_queue, marker, held, riStep, inbox, env, nCmd,
                    nMsg, written, published, obs >>

\* mqtt_queue.get() returns
MwGet ==
    /\ pc[MW] = "mq_get" /\ MW \notin cancelReq
    /\ mqtt_queue # << >>
    /\ MwNext
    /\ UNCHANGED << calc, time_cluster, now, cancelReq, started, mainAt, cleaned, connected,
                    disconnecting, writer, device_info, poll_offset, buffer,
                    serial_queue, marker, riStep, inbox, env, nCmd, nMsg, written,
                    published, obs >>

\* client.publish returns
MwPublished ==
    /\ pc[MW] = "publish" /\ MW \notin cancelReq
    /\ published' = Append(published, held[1].id)
    /\ MwNext
    /\ UNCHANGED << calc, time_cluster, now, cancelReq, started, mainAt, cleaned, connected,
                    disconnecting, writer, device_info, poll_offset, buffer,
                    serial_queue, marker, riStep, inbox, env, nCmd, nMsg, written,
                    obs >>

\* CancelledError in the inner loop: healthcheck_status, then publish a
\* final Status(connected=False) directly
MwCancelled ==
    /\ pc[MW] \in {"mq_get", "publish"} /\ MW \in cancelReq
    /\ cancelReq' = cancelReq \ {MW}
    /\ marker' = healthcheck_status(connected, marker)
    /\ obs' = [obs EXCEPT !.markerOps =
                  IF healthcheck_op(connected, marker) # "none" THEN @ + 1 ELSE @]
    /\ held' = << >>
    /\ At(MW, "final", 0)
    /\ UNCHANGED << calc, time_cluster, now, started, mainAt, cleaned, connected, disconnecting,
                    writer, device_info, poll_offset, buffer, mqtt_queue,
                    serial_queue, riStep, inbox, env, nCmd, nMsg, written,
                    published >>

\* the final publish returns; the client is left and the outer loop tested
MwFinalPublished ==
    /\ pc[MW] = "final"
    /\ MwLoop
    /\ UNCHANGED << calc, time_cluster, now, cancelReq, started, mainAt, cleaned, connected,
                    disconnecting, writer, device_info, poll_offset, buffer,
                    mqtt_queue, serial_queue, marker, held, riStep, inbox, env, nCmd,
                    nMsg, written, published, obs >>

mqtt_writer ==
    \/ MwStart \/ MwConnected \/ MwError \/ MwBackoff \/ MwGet \/ MwPublished
    \/ MwCancelled \/ MwFinalPublished

\* ----------------------------------------------------------- mqtt_reader
Topics == {"command", "reinitialize", "close_current_period", "restart",
           "set_current_price", "birth"}

\* payloads: bytes that are not valid UTF-8, the birth payload, a price in
\* cents, a text that is no decimal number
Undecodable == "\\xff"
Payloads == {Undecodable, "online", "31.50", "abc"}

\* Response.format_price raises on the payload (decimal.InvalidOperation)
format_price_raises(payload) == payload \notin {"31.50"}

\* the commands of reinitialize's loop
ReinitTasks == << "get_device_info", "get_connection_status", "get_time",
                  "get_current_price", "get_current_summation_delivered",
                  "get_last_period_usage" >>

\* the top of mqtt_reader's outer loop
MrLoop == IF disconnecting THEN At(MR, "done", 0) ELSE At(MR, "mr_connect", 0)

MrStart ==
    /\ Turn(MR)
    /\ started' = started + 1
    /\ MrLoop
    /\ UNCHANGED << calc, time_cluster, now, cancelReq, mainAt, cleaned, connected, disconnecting,
                    writer, device_info, poll_offset, buffer, mqtt_queue,
                    serial_queue, marker, held, riStep, inbox, env, nCmd, nMsg,
                    written, published, obs >>

\* the client connects and subscribes
MrConnected ==
    /\ Running /\ pc[MR] = "mr_connect"
    /\ At(MR, "listen", 0)
    /\ inbox' = << >>
    /\ UNCHANGED << calc, time_cluster, now, cancelReq, started, mainAt, cleaned, connected,
                    disconnecting, writer, device_info, poll_offset, buffer,
                    mqtt_queue, serial_queue, marker, held, riStep, env, nCmd,
                    nMsg, written, published, obs >>

\* MqttError while connecting, subscribing or waiting for a message
MrError ==
    /\ Running /\ pc[MR] \in {"mr_connect", "listen"}
    /\ env.busErrs > 0 /\ now + MqttBackoff <= env.horizon
    /\ env' = [env EXCEPT !.busErrs = @ - 1]
    /\ inbox' = << >>
    /\ At(MR, "mr_backoff", MqttBackoff)
    /\ UNCHANGED << calc, time_cluster, now, cancelReq, started, mainAt, cleaned, connected,
                    disconnecting, writer, device_info, poll_offset, buffer,
                    mqtt_queue, serial_queue, marker, held, riStep, nCmd, nMsg,
                    written, published, obs >>

MrBackoff ==
    /\ pc[MR] = "mr_backoff" /\ Due(MR)
    /\ MrLoop
    /\ UNCHANGED << calc, time_cluster, now, cancelReq, started, mainAt, cleaned, connected,
                    disconnecting, writer, device_info, poll_offset,
                    buffer, mqtt_queue, serial_queue, marker, held, riStep, inbox,
                    env, nCmd, nMsg, written, published, obs >>

\* mutation of BusArrive: the message is put before those that wait
BusArriveJumps(topic, payload) ==
    /\ Running /\ Live(MR) /\ pc[MR] \notin {"mr_connect", "mr_backoff"}
    /\ env.busMsgs > 0 /\ topic \in env.topics /\ payload \in env.payloads
    /\ env' = [env EXCEPT !.busMsgs = @ - 1]
    /\ inbox' = << [topic |-> topic, payload |-> payload] >> \o inbox
    /\ obs' = [obs EXCEPT !.arrived = Append(@, [topic |-> topic, payload |-> payload])]
    /\ UNCHANGED << calc, time_cluster, now, pc, wake, cancelReq, started, mainAt, cleaned,
                    connected, disconnecting, writer, device_info, poll_offset,
                    buffer, mqtt_queue, serial_queue, marker, held, riStep,
                    nCmd, nMsg, written, published >>

\* the broker delivers a message to the subscribed client
BusArrive(topic, payload) ==
    /\ Running /\ Live(MR) /\ pc[MR] \notin {"mr_connect", "mr_backoff"}
    /\ env.busMsgs > 0 /\ topic \in env.topics /\ payload \in env.payloads
    /\ env' = [env EXCEPT !.busMsgs = @ - 1]
    /\ inbox' = Append(inbox, [topic |-> topic, payload |-> payload])
    /\ obs' = [obs EXCEPT !.arrived = Append(@, [topic |-> topic, payload |-> payload])]
    /\ UNCHANGED << calc, time_cluster, now, pc, wake, cancelReq, started, mainAt, cleaned,
                    connected, disconnecting, writer, device_info, poll_offset,
                    buffer, mqtt_queue, serial_queue, marker, held, riStep,
                    nCmd, nMsg, written, published >>

\* mutation of Skipped: the payload is decoded before the topic is looked at
SkippedDecodeFirst(m) == m.payload = Undecodable

\* mqtt_reader: restart and close_current_period are matched on the topic
\* alone; for every other topic message.payload.decode() comes first and a
\* UnicodeDecodeError is logged and the message skipped (continue)
Skipped(m) ==
    m.topic \notin {"close_current_period", "restart"} /\ m.payload = Undecodable

\* mutation of Reinitializes: the birth topic's payload is not looked at
ReinitializesAnyBirth(m) == m.topic \in {"reinitialize", "birth"}

\* mqtt_reader: the two tests that lead to "await self.reinitialize()"
Reinitializes(m) ==
    \/ m.topic = "birth" /\ m.payload = "online"
    \/ m.topic = "reinitialize"

\* the body of "async for message in client.messages", up to the next await
MrMessage ==
    /\ pc[MR] = "listen" /\ inbox # << >>
    /\ inbox' = Tail(inbox)
    /\ LET m == Head(inbox) IN
       /\ IF Skipped(m)
            THEN /\ At(MR, "listen", 0)
                 /\ UNCHANGED << serial_queue, nCmd >>
            ELSE CASE m.topic = "close_current_period" ->
                        /\ send_commands(Commands(<< "close_current_period",
                               "get_current_period_usage",
                               "get_last_period_usage" >>))
                        /\ At(MR, "listen", 0)
                   [] m.topic = "restart" ->
                        /\ send_commands(Commands(<< "restart" >>))
                        /\ At(MR, "listen", 0)
                   [] m.topic \in {"birth", "reinitialize"} ->
                        IF Reinitializes(m)
                          THEN \* reinitialize: get_device_info, sleep
                               /\ send_commands(Commands(<< "get_device_info" >>))
                               /\ At(MR, "ri_first", ReinitFirst)
                          ELSE /\ At(MR, "listen", 0)
                               /\ UNCHANGED << serial_queue, nCmd >>
                   [] m.topic = "set_current_price" ->
                        IF device_info = 0
                          THEN /\ At(MR, "listen", 0)
                               /\ UNCHANGED << serial_queue, nCmd >>
                          ELSE IF format_price_raises(m.payload)
                                 THEN \* the exception leaves set_current_price
                                      \* and mqtt_reader, which catches
                                      \* MqttError only
                                      /\ At(MR, "failed", 0)
                                      /\ UNCHANGED << serial_queue, nCmd >>
                                 ELSE /\ send_commands(<< "set_current_price" >>)
                                      /\ At(MR, "price_wait", PriceConfirm)
                   [] m.topic = "command" ->
                        /\ put_payload(m.payload)
                        /\ At(MR, "listen", 0)
       /\ obs' = [obs EXCEPT !.handled = Append(@,
                      [topic |-> m.topic, payload |-> m.payload,
                       known |-> device_info # 0, queued |-> nCmd' - nCmd]),
                    !.reinit = IF pc'[MR] = "ri_first"
                                 THEN [calls |-> << "get_device_info" >>,
                                       done |-> FALSE]
                                 ELSE @]
    /\ UNCHANGED << calc, time_cluster, now, cancelReq, started, mainAt, cleaned, connected,
                    disconnecting, writer, device_info, poll_offset, buffer,
                    mqtt_queue, marker, held, riStep, env, nMsg, written,
                    published >>

\* set_current_price: the sleep ends; get_current_price, back to the messages
MrPriceConfirm ==
    /\ pc[MR] = "price_wait" /\ Due(MR)
    /\ send_commands(Commands(<< "get_current_price" >>))
    /\ At(MR, "listen", 0)
    /\ UNCHANGED << calc, time_cluster, now, cancelReq, started, mainAt, cleaned, connected,
                    disconnecting, writer, device_info, poll_offset, buffer,
                    mqtt_queue, marker, held, riStep, inbox, env, nMsg,
                    written, published, obs >>

\* reinitialize: the first sleep ends; send_discovery puts the entity
\* configs and sleeps when device_info is set; otherwise the second sleep
MrReinitDiscovery ==
    /\ pc[MR] = "ri_first" /\ Due(MR)
    /\ obs' = [obs EXCEPT !.reinit.calls = Append(@, "send_discovery")]
    /\ IF device_info # 0
         THEN /\ mqtt_queue' = Append(mqtt_queue, Message("discovery", nMsg + 1))
              /\ nMsg' = nMsg + 1
              /\ At(MR, "ri_disc", DiscoverySettle)
         ELSE /\ At(MR, "ri_second", ReinitSecond)
              /\ UNCHANGED << mqtt_queue, nMsg >>
    /\ UNCHANGED << calc, time_cluster, now, cancelReq, started, mainAt, cleaned, connected,
                    disconnecting, writer, device_info, poll_offset, buffer,
                    serial_queue, marker, held, riStep, inbox, env, nCmd,
                    written, published >>

\* reinitialize: send_discovery's sleep ends; send_status, the second sleep
MrReinitStatus ==
    /\ pc[MR] = "ri_disc" /\ Due(MR)
    /\ send_status(connected)
    /\ obs' = ObsStatus(obs, connected, FALSE)
    /\ At(MR, "ri_second", ReinitSecond)
    /\ UNCHANGED << calc, time_cluster, now, cancelReq, started, mainAt, cleaned, connected,
                    disconnecting, writer, device_info, poll_offset, buffer,
                    serial_queue, held, riStep, inbox, env, nCmd, written,
                    published >>

\* reinitialize: the loop over its commands, one per sleep
MrReinitEach ==
    /\ pc[MR] \in {"ri_second", "ri_each"} /\ Due(MR)
    /\ LET i == IF pc[MR] = "ri_second" THEN 1 ELSE riStep + 1 IN
       IF i <= Len(ReinitTasks)
         THEN /\ send_commands(Commands(<< ReinitTasks[i] >>))
              /\ riStep' = i
              /\ obs' = [obs EXCEPT !.reinit.calls = Append(@, ReinitTasks[i])]
              /\ At(MR, "ri_each", ReinitEach)
         ELSE /\ riStep' = 0
              /\ obs' = [obs EXCEPT !.reinit.done = TRUE]
              /\ At(MR, "listen", 0)
              /\ UNCHANGED << serial_queue, nCmd >>
    /\ UNCHANGED << calc, time_cluster, now, cancelReq, started, mainAt, cleaned, connected,
                    disconnecting, writer, device_info, poll_offset, buffer,
                    mqtt_queue, marker, held, inbox, env, nMsg, written,
                    published >>

mqtt_reader ==
    \/ MrStart \/ MrConnected \/ MrError \/ MrBackoff \/ MrMessage
    \/ MrPriceConfirm \/ MrReinitDiscovery \/ MrReinitStatus \/ MrReinitEach

\* ---------------------------------------------------------- poll_command
\* poll_command runs up to its first await: the staggered first sleep
PollStart(p) ==
    /\ Turn(p)
    /\ started' = started + 1
    /\ poll_offset' = poll_offset + PollOffsetStep
    /\ At(p, "poll_init", poll_offset + PollOffsetStep)
    /\ UNCHANGED << calc, time_cluster, now, cancelReq, mainAt, cleaned, connected, disconnecting,
                    writer, device_info, buffer, mqtt_queue, serial_queue,
                    marker, held, riStep, inbox, env, nCmd, nMsg, written,
                    published, obs >>

\* mutation of PollWake: the command is called whatever connected is
PollWakeBlind(p) ==
    /\ pc[p] \in {"poll_init", "poll_backoff", "poll_wait"} /\ Due(p)
    /\ IF disconnecting
         THEN /\ At(p, "done", 0)
              /\ UNCHANGED << serial_queue, nCmd >>
         ELSE /\ send_commands(Commands(<< PollCommand(p) >>))
              /\ At(p, "poll_wait", PollFrequency(p))
    /\ UNCHANGED << calc, time_cluster, now, cancelReq, started, mainAt, cleaned, connected,
                    disconnecting, writer, device_info, poll_offset, buffer,
                    mqtt_queue, marker, held, riStep, inbox, env, nMsg,
                    written, published, obs >>

\* a sleep of poll_command ends: the loop condition, then the backoff while
\* disconnected, or the command and the sleep of the frequency
PollWake(p) ==
    /\ pc[p] \in {"poll_init", "poll_backoff", "poll_wait"} /\ Due(p)
    /\ IF disconnecting
         THEN /\ At(p, "done", 0)
              /\ UNCHANGED << serial_queue, nCmd >>
         ELSE IF ~connected
                THEN /\ At(p, "poll_backoff", PollBackoff)
                     /\ UNCHANGED << serial_queue, nCmd >>
                ELSE /\ send_commands(Commands(<< PollCommand(p) >>))
                     /\ At(p, "poll_wait", PollFrequency(p))
    /\ UNCHANGED << calc, time_cluster, now, cancelReq, started, mainAt, cleaned, connected,
                    disconnecting, writer, device_info, poll_offset, buffer,
                    mqtt_queue, marker, held, riStep, inbox, env, nMsg,
                    written, published, obs >>

\* ------------------------------------------------------- queue_discovery
\* the loop of queue_discovery: send_discovery once device_info is set
EntLoop ==
    IF device_info # 0
      THEN /\ mqtt_queue' = Append(mqtt_queue, Message("discovery", nMsg + 1))
           /\ nMsg' = nMsg + 1
           /\ At(ENT, "ent_disc", DiscoverySettle)
      ELSE /\ At(ENT, "ent_retry", DiscoveryRetry)
           /\ UNCHANGED << mqtt_queue, nMsg >>

EntStart ==
    /\ Turn(ENT)
    /\ started' = started + 1
    /\ EntLoop
    /\ UNCHANGED << calc, time_cluster, now, cancelReq, mainAt, cleaned, connected, disconnecting,
                    writer, device_info, poll_offset, buffer, serial_queue,
                    marker, held, riStep, inbox, env, nCmd, written, published,
                    obs >>

EntRetry ==
    /\ pc[ENT] = "ent_retry" /\ Due(ENT)
    /\ EntLoop
    /\ UNCHANGED << calc, time_cluster, now, cancelReq, started, mainAt, cleaned, connected,
                    disconnecting, writer, device_info, poll_offset, buffer,
                    serial_queue, marker, held, riStep, inbox, env, nCmd,
                    written, published, obs >>

\* send_discovery's sleep ends: send_status, and queue_discovery breaks
EntStatus ==
    /\ pc[ENT] = "ent_disc" /\ Due(ENT)
    /\ send_status(connected)
    /\ obs' = ObsStatus(obs, connected, FALSE)
    /\ At(ENT, "done", 0)
    /\ UNCHANGED << calc, time_cluster, now, cancelReq, started, mainAt, cleaned, connected,
                    disconnecting, writer, device_info, poll_offset, buffer,
                    serial_queue, held, riStep, inbox, env, nCmd, written,
                    published >>

queue_discovery == EntStart \/ EntRetry \/ EntStatus

\* mutation of HasHandler: the pacing delay of serial_writer is outside its try
HasHandlerPaceOutside(t) ==
    \/ t = SR /\ pc[t] = "readline"
    \/ t = SW /\ pc[t] \in {"get", "drain", "idle"}
    \/ t = MW /\ pc[t] \in {"mq_get", "publish"}

\* ------------------------------------------------------ cancellation
\* the awaits of a task that lie in a try with an "except CancelledError"
HasHandler(t) ==
    \/ t = SR /\ pc[t] = "readline"
    \/ t = SW /\ pc[t] \in {"get", "drain", "pace", "idle"}
    \/ t = MW /\ pc[t] \in {"mq_get", "publish"}

\* tasks() awaits a task that has not ended: cancelling tasks() cancels
\* that task, and tasks() gets what that task ends with.  When that task
\* catches the CancelledError, tasks() goes on when it returns.
MainDelegates ==
    pc[Main] = "await" /\ Live(MainAwaits[mainAt]) /\ HasHandler(MainAwaits[mainAt])

\* task.cancel() for every live task but self.  A task suspended in a try
\* that catches CancelledError runs its handler when the loop next runs it;
\* in a task suspended anywhere else the CancelledError ends the task with
\* no further effect.
CancelAll(self) ==
    LET hit == {t \in Tasks \ {self} : Live(t)}
        caught == {t \in hit : HasHandler(t)}
        spared == IF Main \in hit /\ MainDelegates THEN {Main} ELSE {}
    IN  /\ cancelReq' = cancelReq \cup caught
        /\ pc' = [t \in Tasks |->
                    IF t \in hit \ (caught \cup spared) THEN "cancelled"
                    ELSE IF t = self /\ self \in Signals THEN "gather"
                    ELSE pc[t]]
        /\ wake' = [t \in Tasks |-> IF t \in hit \ spared \/ t = self THEN 0 ELSE wake[t]]

\* ----------------------------------------------------------- disconnect
\* asyncio.run has returned: tasks() has ended, what was left was cancelled
\* and has ended
Exited == cleaned /\ \A t \in Tasks : ~Live(t)

\* a termination signal: its handler creates the disconnect task, which
\* sets disconnecting and sleeps
Signal(s) ==
    /\ Running /\ pc[s] = "absent" /\ ~Exited
    /\ s \in env.signals /\ now + DisconnectGrace <= env.horizon
    /\ env' = [env EXCEPT !.signals = @ \ {s}]
    /\ disconnecting' = TRUE
    /\ At(s, "grace", DisconnectGrace)
    /\ obs' = [obs EXCEPT !.atSignal = [t \in {MR, MW, SR, SW} |-> pc[t]]]
    /\ UNCHANGED << calc, time_cluster, now, cancelReq, started, mainAt, cleaned, connected,
                    writer, device_info, poll_offset, buffer, mqtt_queue,
                    serial_queue, marker, held, riStep, inbox, nCmd, nMsg,
                    written, published >>

\* disconnect: the sleep ends; cancel every other task and await them
DisconnectCancel(s) ==
    /\ pc[s] = "grace" /\ Due(s)
    /\ CancelAll(s)
    /\ UNCHANGED << calc, time_cluster, now, started, mainAt, cleaned, connected, disconnecting,
                    writer, device_info, poll_offset, buffer, mqtt_queue,
                    serial_queue, marker, held, riStep, inbox, env, nCmd, nMsg,
                    written, published, obs >>

\* mutation of DisconnectGathered: the flag is reset when the shutdown is over
DisconnectGatheredResets(s) ==
    /\ pc[s] = "gather"
    /\ {t \in Tasks \ {s} : Live(t) /\ pc[t] # "cancelled"} = {}
         \/ {t \in Tasks \ {s} : pc[t] = "cancelled"} # {}
    /\ IF {t \in Tasks \ {s} : pc[t] = "cancelled"} # {}
         THEN At(s, "cancelled", 0)
         ELSE At(s, "done", 0)
    /\ disconnecting' = FALSE
    /\ UNCHANGED << calc, time_cluster, now, cancelReq, started, mainAt, cleaned, connected,
                    writer, device_info, poll_offset, buffer,
                    mqtt_queue, serial_queue, marker, held, riStep, inbox, env,
                    nCmd, nMsg, written, published, obs >>

\* disconnect: asyncio.gather(*tasks) ends.  It raises CancelledError as soon
\* as one of the tasks has ended cancelled; loop.stop() is reached only when
\* every task has returned.
DisconnectGathered(s) ==
    /\ pc[s] = "gather"
    /\ {t \in Tasks \ {s} : Live(t) /\ pc[t] # "cancelled"} = {}
         \/ {t \in Tasks \ {s} : pc[t] = "cancelled"} # {}
    /\ IF {t \in Tasks \ {s} : pc[t] = "cancelled"} # {}
         THEN At(s, "cancelled", 0)
         ELSE At(s, "done", 0)
    /\ UNCHANGED << calc, time_cluster, now, cancelReq, started, mainAt, cleaned, connected,
                    disconnecting, writer, device_info, poll_offset,
                    buffer, mqtt_queue, serial_queue, marker, held, riStep, inbox,
                    env, nCmd, nMsg, written, published, obs >>

\* ---------------------------------------------------------------- tasks
\* tasks(): the task awaited has ended.  An exception or a cancellation of
\* the task ends tasks() with it; after serial_writer_task, tasks() calls
\* get_device_info and sleeps.
MainStep ==
    /\ Running /\ pc[Main] = "await" /\ ~Live(MainAwaits[mainAt])
    /\ IF pc[MainAwaits[mainAt]] # "done"
         THEN /\ At(Main, pc[MainAwaits[mainAt]], 0)
              /\ UNCHANGED << mainAt, serial_queue, nCmd >>
         ELSE IF MainAwaits[mainAt] = SW
                THEN /\ send_commands(Commands(<< "get_device_info" >>))
                     /\ mainAt' = mainAt + 1
                     /\ At(Main, "main_sleep", MainSettle)
                ELSE IF mainAt = Len(MainAwaits)
                       THEN /\ At(Main, "done", 0)
                            /\ UNCHANGED << mainAt, serial_queue, nCmd >>
                       ELSE /\ mainAt' = mainAt + 1
                            /\ At(Main, "await", 0)
                            /\ UNCHANGED << serial_queue, nCmd >>
    /\ UNCHANGED << calc, time_cluster, now, cancelReq, started, cleaned, connected,
                    disconnecting, writer, device_info, poll_offset, buffer,
                    mqtt_queue, marker, held, riStep, inbox, env, nMsg,
                    written, published, obs >>

MainWake ==
    /\ pc[Main] = "main_sleep" /\ Due(Main)
    /\ At(Main, "await", 0)
    /\ UNCHANGED << calc, time_cluster, now, cancelReq, started, mainAt, cleaned, connected,
                    disconnecting, writer, device_info, poll_offset,
                    buffer, mqtt_queue, serial_queue, marker, held, riStep, inbox,
                    env, nCmd, nMsg, written, published, obs >>

\* asyncio.run(emu2.tasks()): tasks() has ended; the tasks that are left are
\* cancelled and the loop runs until they have ended
RunCleanup ==
    /\ ~Live(Main) /\ ~cleaned
    /\ cleaned' = TRUE
    /\ CancelAll(Main)
    /\ UNCHANGED << calc, time_cluster, now, started, mainAt, connected, disconnecting, writer,
                    device_info, poll_offset, buffer, mqtt_queue, serial_queue,
                    marker, held, riStep, inbox, env, nCmd, nMsg, written,
                    published, obs >>

\* ------------------------------------------------------------------ Next
\* every task runs its first step, in the order of creation
StartTasks ==
    \/ MrStart \/ MwStart \/ SrStart \/ SwStart \/ EntStart
    \/ (\E p \in Pollers : PollStart(p))

Next ==
    \/ Tick \/ StartTasks
    \/ SrOpenOk \/ SrOpenFail \/ SrSettled \/ SrRetry \/ SrDrop \/ SrCancelled
    \/ (\E l \in LineAlphabet : SrLine(l))
    \/ SwGet \/ SwDrained \/ SwWake \/ SwCancelled \/ SwClosed
    \/ MwConnected \/ MwError \/ MwBackoff \/ MwGet \/ MwPublished
    \/ MwCancelled \/ MwFinalPublished
    \/ MrConnected \/ MrError \/ MrBackoff \/ MrMessage
    \/ MrPriceConfirm \/ MrReinitDiscovery \/ MrReinitStatus \/ MrReinitEach
    \/ (\E t \in Topics, b \in Payloads : BusArrive(t, b))
    \/ (\E p \in Pollers : PollWake(p))
    \/ EntRetry \/ EntStatus
    \/ (\E s \in Signals : Signal(s) \/ DisconnectCancel(s) \/ DisconnectGathered(s))
    \/ MainStep \/ MainWake \/ RunCleanup

\* The program with everything its environment may do.  Its state space is
\* too large to enumerate: the properties are checked under the
\* specifications below, each of which gives the environment a part of its
\* events and lists the actions that can then be taken.
Init ==
    InitWith(Env(MaxDrops, MaxOpenFails, MaxLines, LineAlphabet, MaxBusMsgs,
                 Topics, Payloads, MaxBusErrs, Signals, MaxTime))

Spec == Init /\ [][Next]_vars

\* The device link: transport errors on open and on readline, raw commands
\* and restarts from the bus, the pollers.
InitDevice ==
    InitWith(Env(MaxDrops, MaxOpenFails, 0, {}, MaxBusMsgs,
                 {"command", "restart"}, {"abc"}, 0, {}, MaxTime))

NextDevice ==
    \/ Tick \/ StartTasks
    \/ SrOpenOk \/ SrOpenFail \/ SrSettled \/ SrRetry \/ SrDrop
    \/ SwGet \/ SwDrained \/ SwWake
    \/ MrConnected \/ MrMessage
    \/ (\E t \in Topics, b \in Payloads : BusArrive(t, b))
    \/ (\E p \in Pollers : PollWake(p))

SpecDevice == InitDevice /\ [][NextDevice]_vars

\* ------------------------------------------------------ the cached facts
\* The device sends whole frames, one line at a time: DeviceInfo, TimeCluster
\* with either of two local times, ConnectionStatus, and frames that are
\* rejected: a TimeCluster without LocalTime, a tag that is no response
\* class, a closing tag that does not match.
FactsTime == 3
FactsLines == 14

DeviceInfoFrame ==
    << Line("open", "DeviceInfo"), Line("field", "DeviceMacId"),
       Line("close", "DeviceInfo") >>

\* local times of the device, before and at the wall clock's epoch
LocalTimes == { << "0", "x", "3", "d", "e" >>, << "0", "x", "0", "3", "E", "8" >> }

TimeClusterFrame(local_time) ==
    << Line("open", "TimeCluster"), Field("UTCTime", << "0", "x", "4", "0", "0" >>),
       Field("LocalTime", local_time), Line("close", "TimeCluster") >>

RejectedFrames ==
    { << Line("open", "TimeCluster"), Field("UTCTime", << "0", "x", "4", "0", "0" >>),
         Line("close", "TimeCluster") >>,
      << Line("open", "Foo"), Line("field", "DeviceMacId"), Line("close", "Foo") >>,
      << Line("open", "DeviceInfo"), Line("field", "DeviceMacId"),
         Line("close", "TimeCluster") >> }

FactFrames ==
    {DeviceInfoFrame} \cup {TimeClusterFrame(t) : t \in LocalTimes}
        \cup { << Line("open", "ConnectionStatus"),
                  Field("LinkStrength", << "0", "x", "6", "4" >>),
                  Line("close", "ConnectionStatus") >> }
        \cup RejectedFrames

\* the lines the frames are made of
LinesOf(frames) == UNION { {f[i] : i \in 1..Len(f)} : f \in frames }

\* the device sends frames of the set only: line l continues the frame that
\* the lines read since the link was opened have begun, or begins a frame
Sends(frames, l) ==
    LET cur == SubSeq(buffer, obs.stale + 1, Len(buffer)) IN
    \E f \in frames : /\ Len(cur) < Len(f)
                      /\ SubSeq(f, 1, Len(cur)) = cur
                      /\ f[Len(cur) + 1] = l

InitFacts ==
    InitWith(Env(0, 0, FactsLines, LinesOf(FactFrames), 0, {}, {}, 0, {}, FactsTime))

NextFacts ==
    \/ Tick \/ StartTasks
    \/ SrOpenOk \/ SrSettled
    \/ (\E l \in LinesOf(FactFrames) : Sends(FactFrames, l) /\ SrLine(l))
    \/ SwWake

SpecFacts == InitFacts /\ [][NextFacts]_vars

\* -------------------------------------------------- the clock offset
\* The device sends TimeCluster frames with either local time and
\* LastPeriodUsage frames with a time stamp, a start and an end date; the
\* link fails once and the reader reconnects.
ClockTime == 4
ClockLines == 28

LastPeriodFrame ==
    << Line("open", "LastPeriodUsage"),
       Field("TimeStamp", << "0", "x", "7", "d", "0" >>),
       Field("LastUsage", << "0", "x", "5", "a" >>),
       Field("Multiplier", << "0", "x", "1" >>),
       Field("Divisor", << "0", "x", "3", "e", "8" >>),
       Field("DigitsRight", << "0", "x", "1" >>),
       Field("DigitsLeft", << "0", "x", "0" >>),
       Field("StartDate", << "0", "x", "4", "b", "5" >>),
       Field("EndDate", << "0", "x", "5", "d", "c" >>),
       Line("close", "LastPeriodUsage") >>

ClockFrames == {LastPeriodFrame} \cup {TimeClusterFrame(t) : t \in LocalTimes}

InitClock ==
    InitWith(Env(MaxDrops, 0, ClockLines, LinesOf(ClockFrames), 0, {}, {}, 0, {},
                 ClockTime))

NextClock ==
    \/ Tick \/ StartTasks
    \/ SrOpenOk \/ SrSettled \/ SrDrop
    \/ (\E l \in LinesOf(ClockFrames) : Sends(ClockFrames, l) /\ SrLine(l))
    \/ SwWake

SpecClock == InitClock /\ [][NextClock]_vars

\* ------------------------------------------------------ Demand._format
\* The dates of a frame of the Demand family and the offset of the emu's
\* time_cluster: start dates from 1 on, as the program writes numbers,
\* offsets of either sign, sums below zero and on both sides of a multiple
\* of five minutes.
MaxDate == 305
MaxOffset == 40

OtherDates == { << "0", "x", "7", "d", "0" >>, << "0", "x", "0", "0", "0", "1" >> }

InitAdjust ==
    /\ InitProgram(Env(0, 0, 0, {}, 0, {}, {}, 0, {}, 0))
    /\ calc \in { [op |-> "Demand", raw |-> r, start_date |-> to_hex(r),
                   time_stamp |-> t, end_date |-> e, offset |-> o,
                   done |-> FALSE, result |-> NoBody] :
                  r \in 1..MaxDate, o \in (0 - MaxOffset)..MaxOffset,
                  t \in OtherDates, e \in OtherDates }

\* ResponseFactory builds the response of a frame with these three elements
\* for an emu whose time_cluster has the offset
DecodeDemand ==
    /\ calc.op = "Demand" /\ ~calc.done
    /\ calc' = [calc EXCEPT !.done = TRUE,
                  !.result = Demand_format(TextAttr(calc.time_stamp),
                                 TextAttr(calc.start_date), TextAttr(calc.end_date),
                                 [id |-> 1, local_time_offset |-> calc.offset])]
    /\ UNCHANGED << now, pc, wake, cancelReq, started, mainAt, cleaned, connected,
                    disconnecting, writer, device_info, time_cluster, poll_offset,
                    buffer, mqtt_queue, serial_queue, marker, held, riStep, inbox,
                    env, nCmd, nMsg, written, published, obs >>

NextAdjust == DecodeDemand

SpecAdjust == InitAdjust /\ [][NextAdjust]_vars

\* ------------------------------------------------ commands and identity
\* Bus messages that ask for gated and for raw commands arrive before or
\* after the device has sent its DeviceInfo; the pollers and queue_discovery
\* run up to their second turn.
GateTime == 10
GateMsgs == 1

InitGating ==
    InitWith(Env(0, 0, Len(DeviceInfoFrame), LinesOf({DeviceInfoFrame}), GateMsgs,
                 {"close_current_period", "set_current_price", "command"},
                 {"31.50"}, 0, {}, GateTime))

NextGating ==
    \/ Tick \/ StartTasks
    \/ SrOpenOk \/ SrSettled
    \/ (\E l \in LinesOf({DeviceInfoFrame}) : Sends({DeviceInfoFrame}, l) /\ SrLine(l))
    \/ SwGet \/ SwDrained \/ SwWake
    \/ MrConnected \/ MrMessage \/ MrPriceConfirm
    \/ (\E t \in Topics, b \in Payloads : BusArrive(t, b))
    \/ (\E p \in Pollers : PollWake(p))
    \/ EntRetry

SpecGating == InitGating /\ [][NextGating]_vars

\* --------------------------------------------------- one message at a time
\* Messages that start a workflow (reinitialize, set_current_price) and
\* messages that are handled at once (command, restart) arrive in any order,
\* also while a workflow is in one of its delays; the device has sent its
\* DeviceInfo or has not.
TurnsTime == 5
TurnsMsgs == 4

InitTurns ==
    InitWith(Env(0, 0, Len(DeviceInfoFrame), LinesOf({DeviceInfoFrame}), TurnsMsgs,
                 {"reinitialize", "set_current_price", "command", "restart"},
                 {"31.50"}, 0, {}, TurnsTime))

NextTurns ==
    \/ Tick \/ StartTasks
    \/ SrOpenOk \/ SrSettled
    \/ (\E l \in LinesOf({DeviceInfoFrame}) : Sends({DeviceInfoFrame}, l) /\ SrLine(l))
    \/ SwGet \/ SwDrained \/ SwWake
    \/ MrConnected \/ MrMessage \/ MrPriceConfirm
    \/ (\E t \in Topics, b \in Payloads : BusArrive(t, b))
    \/ (\E p \in Pollers : PollWake(p))

SpecTurns == InitTurns /\ [][NextTurns]_vars

\* ================================================================ claims

\* What the program does by itself once it can: the steps of the tasks and
\* the completions of their sleeps.  The event loop runs every task that is
\* ready, and the clock runs on.
Progress ==
    \/ Tick \/ StartTasks
    \/ SrOpenOk \/ SrSettled \/ SrRetry \/ SrCancelled
    \/ SwGet \/ SwDrained \/ SwWake \/ SwCancelled \/ SwClosed
    \/ MwBackoff \/ MwGet \/ MwPublished \/ MwCancelled \/ MwFinalPublished
    \/ MrBackoff \/ MrMessage
    \/ MrPriceConfirm \/ MrReinitDiscovery \/ MrReinitStatus \/ MrReinitEach
    \/ (\E p \in Pollers : PollWake(p))
    \/ EntRetry \/ EntStatus
    \/ (\E s \in Signals : DisconnectCancel(s) \/ DisconnectGathered(s))
    \/ MainStep \/ MainWake \/ RunCleanup

\* Connecting: open_serial_connection fails some times, the link drops, a
\* signal may come at any time.
ConnectTime == 12

InitConnect ==
    InitWith(Env(MaxDrops, MaxOpenFails, 0, {}, 0, {}, {}, 0, {"SIGTERM"},
                 ConnectTime))

NextConnect ==
    \/ Tick \/ StartTasks
    \/ SrOpenOk \/ SrOpenFail \/ SrSettled \/ SrRetry \/ SrDrop \/ SrCancelled
    \/ SwGet \/ SwDrained \/ SwWake \/ SwCancelled \/ SwClosed
    \/ (\E p \in Pollers : PollWake(p))
    \/ EntRetry
    \/ (\E s \in Signals : Signal(s) \/ DisconnectCancel(s) \/ DisconnectGathered(s))
    \/ RunCleanup

SpecConnect == InitConnect /\ [][NextConnect]_vars /\ WF_vars(Progress /\ NextConnect)

\* Status events: the device answers get_device_info, the link drops, the
\* discovery runs once the device is known.
StatusTime == 12
StatusLines == 3

InitStatus ==
    InitWith(Env(MaxDrops, 0, StatusLines,
                 {Line("open", "DeviceInfo"), Line("field", "DeviceMacId"),
                  Line("close", "DeviceInfo")},
                 0, {}, {}, 0, {}, StatusTime))

NextStatus ==
    \/ Tick \/ StartTasks
    \/ SrOpenOk \/ SrSettled \/ SrDrop
    \/ (\E l \in LineAlphabet : SrLine(l))
    \/ SwGet \/ SwDrained \/ SwWake
    \/ (\E p \in Pollers : PollWake(p))
    \/ EntRetry \/ EntStatus

SpecStatus == InitStatus /\ [][NextStatus]_vars

\* Publishing: status events and a decoded response go to the broker, the
\* link drops, the broker connection fails and is made again.
BusTime == 8

InitBus ==
    InitWith(Env(MaxDrops, 0, StatusLines,
                 {Line("open", "DeviceInfo"), Line("field", "DeviceMacId"),
                  Line("close", "DeviceInfo")},
                 0, {}, {}, MaxBusErrs, {}, BusTime))

NextBus ==
    \/ Tick \/ StartTasks
    \/ SrOpenOk \/ SrSettled \/ SrDrop
    \/ (\E l \in LineAlphabet : SrLine(l))
    \/ SwGet \/ SwDrained \/ SwWake
    \/ MwConnected \/ MwError \/ MwBackoff \/ MwGet \/ MwPublished
    \/ (\E p \in Pollers : PollWake(p))

SpecBus == InitBus /\ [][NextBus]_vars

\* Inbound bus messages: commands, prices, restart and close_current_period
\* with payloads that decode or do not, before and after the device has
\* answered get_device_info.  An exception that leaves mqtt_reader
\* ends tasks(), and asyncio.run cancels what is left.
InboundTime == 5

InitInbound ==
    InitWith(Env(0, 0, StatusLines,
                 {Line("open", "DeviceInfo"), Line("field", "DeviceMacId"),
                  Line("close", "DeviceInfo")},
                 MaxBusMsgs,
                 {"command", "set_current_price", "restart", "close_current_period"},
                 {Undecodable, "abc", "31.50"}, 0, {}, InboundTime))

NextInbound ==
    \/ Tick \/ StartTasks
    \/ SrOpenOk \/ SrSettled \/ SrCancelled
    \/ (\E l \in LineAlphabet : SrLine(l))
    \/ SwGet \/ SwDrained \/ SwWake \/ SwCancelled \/ SwClosed
    \/ MrConnected \/ MrMessage \/ MrPriceConfirm
    \/ (\E t \in Topics, b \in Payloads : BusArrive(t, b))
    \/ (\E p \in Pollers : PollWake(p))
    \/ MainStep \/ RunCleanup

SpecInbound == InitInbound /\ [][NextInbound]_vars

\* Lines from the device: any lines of the alphabet in any order, bytes that
\* are not UTF-8 among them, and a drop of the link.
FrameTime == 3

InitFrames ==
    InitWith(Env(MaxDrops, 0, MaxLines, LineAlphabet, 0, {}, {}, 0, {}, FrameTime))

NextFrames ==
    \/ Tick \/ StartTasks
    \/ SrOpenOk \/ SrSettled \/ SrDrop
    \/ (\E l \in LineAlphabet : SrLine(l))
    \/ SwWake

SpecFrames == InitFrames /\ [][NextFrames]_vars

\* ------------------------------------------------- dispatch on the topic
\* Messages on all six subscribed topics, with the birth payload, a price
\* and a text that is no price; the device sends its DeviceInfo.
DispatchTime == 3

InitDispatch ==
    InitWith(Env(0, 0, StatusLines,
                 {Line("open", "DeviceInfo"), Line("field", "DeviceMacId"),
                  Line("close", "DeviceInfo")},
                 MaxBusMsgs, Topics, {"online", "31.50", "abc"}, 0, {},
                 DispatchTime))

NextDispatch ==
    \/ Tick \/ StartTasks
    \/ SrOpenOk \/ SrSettled \/ SrCancelled
    \/ (\E l \in LineAlphabet : SrLine(l))
    \/ SwGet \/ SwDrained \/ SwWake \/ SwCancelled \/ SwClosed
    \/ MrConnected \/ MrMessage
    \/ (\E t \in Topics, b \in Payloads : BusArrive(t, b))
    \/ MainStep \/ RunCleanup

SpecDispatch == InitDispatch /\ [][NextDispatch]_vars

\* ------------------------------------------------ PriceCluster._format
\* The raw prices and trailing digits of a PriceCluster frame: the sentinel,
\* zero, an empty element, prices in the device's and the program's spelling.
MaxTrailing == 5

RawPrices == { Sentinel, << >>,
               << "0", "x", "0", "0", "0", "0", "0", "0", "0", "0" >>,
               << "0", "x", "0", "0", "0", "0", "0", "1", "3", "b" >>,
               << "0", "x", "1", "3", "B" >>, << "0", "x", "6", "f" >>,
               << "0", "x", "5" >>, << "0", "x", "1" >>,
               << "0", "x", "0", "7" >>, << "0", "x", "f", "f" >> }

TrailingTexts == { << "0", "x", "0", UpperDigits[t + 1] >> : t \in 0..MaxTrailing }

InitPrice ==
    /\ InitProgram(Env(0, 0, 0, {}, 0, {}, {}, 0, {}, 0))
    /\ calc \in [op : {"PriceCluster"}, price : RawPrices,
                 trailing_digits : TrailingTexts, done : {FALSE},
                 result : {NoPrice}]

\* ResponseFactory builds the PriceCluster response
DecodePrice ==
    /\ calc.op = "PriceCluster" /\ ~calc.done
    /\ calc' = [calc EXCEPT !.done = TRUE,
                  !.result = PriceCluster_format(calc.price, calc.trailing_digits)]
    /\ UNCHANGED << now, pc, wake, cancelReq, started, mainAt, cleaned, connected,
                    disconnecting, writer, device_info, time_cluster, poll_offset,
                    buffer, mqtt_queue, serial_queue, marker, held, riStep, inbox,
                    env, nCmd, nMsg, written, published, obs >>

NextPrice == DecodePrice

SpecPrice == InitPrice /\ [][NextPrice]_vars

\* --------------------------------------------------- format_price, alone
\* Prices in cents as the bus payload spells them: a whole part, and no
\* fraction or one of up to three digits.
WholeTexts == { << "0" >>, << "1" >>, << "5" >>, << "1", "0" >>, << "3", "1" >>,
                << "1", "0", "0" >>, << "1", "1", "1" >>,
                << "1", "0", "0", "0" >>, << "1", "2", "0", "0" >>,
                << "2", "0", "0", "0" >> }

FractionTexts == { << >>, << ".", "0" >>, << ".", "1" >>, << ".", "5", "0" >>,
                   << ".", "1", "1" >>, << ".", "1", "1", "1" >> }

CentsTexts == { w \o f : w \in WholeTexts, f \in FractionTexts }

InitEncode ==
    /\ InitProgram(Env(0, 0, 0, {}, 0, {}, {}, 0, {}, 0))
    /\ calc \in [op : {"format_price"}, cents : CentsTexts, stage : {"new"},
                 pair : {Raised}, result : {NoPrice}]

\* set_current_price: Response.format_price(cents)
EncodePrice ==
    /\ calc.op = "format_price" /\ calc.stage = "new"
    /\ calc' = [calc EXCEPT !.stage = "encoded", !.pair = format_price(calc.cents)]
    /\ UNCHANGED << now, pc, wake, cancelReq, started, mainAt, cleaned, connected,
                    disconnecting, writer, device_info, time_cluster, poll_offset,
                    buffer, mqtt_queue, serial_queue, marker, held, riStep, inbox,
                    env, nCmd, nMsg, written, published, obs >>

\* a PriceCluster with the pair format_price returned is decoded
DecodePair ==
    /\ calc.op = "format_price" /\ calc.stage = "encoded" /\ ~calc.pair.raised
    /\ calc' = [calc EXCEPT !.stage = "decoded",
                  !.result = PriceCluster_format(calc.pair.price,
                                                 calc.pair.trailing_digits)]
    /\ UNCHANGED << now, pc, wake, cancelReq, started, mainAt, cleaned, connected,
                    disconnecting, writer, device_info, time_cluster, poll_offset,
                    buffer, mqtt_queue, serial_queue, marker, held, riStep, inbox,
                    env, nCmd, nMsg, written, published, obs >>

NextEncode == EncodePrice \/ DecodePair

SpecEncode == InitEncode /\ [][NextEncode]_vars

\* ------------------------------------------- a frame and a transport error
\* The device sends the lines of a DeviceInfo frame; the link fails once, at
\* any point between them, and the reader reconnects.
BoundaryTime == 4

InitBoundary ==
    InitWith(Env(MaxDrops, 0, MaxLines,
                 {Line("open", "DeviceInfo"), Line("field", "DeviceMacId"),
                  Line("close", "DeviceInfo")},
                 0, {}, {}, 0, {}, BoundaryTime))

NextBoundary ==
    \/ Tick \/ StartTasks
    \/ SrOpenOk \/ SrSettled \/ SrDrop
    \/ (\E l \in LineAlphabet : SrLine(l))
    \/ SwWake

SpecBoundary == InitBoundary /\ [][NextBoundary]_vars

\* ------------------------------------------------- the pollers' first runs
\* The serial port may fail to open at first, so that a poller's first
\* wake-up can find the device disconnected.
StaggerTime == 10

InitStagger ==
    InitWith(Env(0, MaxOpenFails, 0, {}, 0, {}, {}, 0, {}, StaggerTime))

NextStagger ==
    \/ Tick \/ StartTasks
    \/ SrOpenOk \/ SrOpenFail \/ SrSettled \/ SrRetry
    \/ SwGet \/ SwDrained \/ SwWake
    \/ MrConnected
    \/ (\E p \in Pollers : PollWake(p))
    \/ EntRetry

SpecStagger == InitStagger /\ [][NextStagger]_vars

\* ------------------------------------------------------------ reinitialize
\* One reinitialize message, at any time; the run is long enough for the
\* workflow to enter its loop.
ReinitTime == 16
ReinitMsgs == 1

InitReinit ==
    InitWith(Env(0, 0, 0, {}, ReinitMsgs, {"reinitialize"}, {"online"}, 0, {},
                 ReinitTime))

NextReinit ==
    \/ Tick \/ StartTasks
    \/ SrOpenOk \/ SrSettled
    \/ SwGet \/ SwDrained \/ SwWake
    \/ MwConnected \/ MwGet \/ MwPublished
    \/ MrConnected \/ MrMessage
    \/ MrReinitDiscovery \/ MrReinitEach
    \/ (\E t \in Topics, b \in Payloads : BusArrive(t, b))
    \/ (\E p \in Pollers : PollWake(p))
    \/ EntRetry

SpecReinit == InitReinit /\ [][NextReinit]_vars

\* ------------------------------------------------ frames of one class
\* The device sends ConnectionStatus frames, with and without the
\* LinkStrength field.
FieldTime == 3

FieldAlphabet == { Line("open", "ConnectionStatus"), Line("field", "DeviceMacId"),
                   Line("field", "LinkStrength"), Line("close", "ConnectionStatus") }

InitFields ==
    InitWith(Env(MaxDrops, 0, MaxLines, FieldAlphabet, 0, {}, {}, 0, {}, FieldTime))

NextFields ==
    \/ Tick \/ StartTasks
    \/ SrOpenOk \/ SrSettled \/ SrDrop
    \/ (\E l \in FieldAlphabet : SrLine(l))
    \/ SwWake

SpecFields == InitFields /\ [][NextFields]_vars

\* Shutdown: a signal comes at any time: while the reader reads, reconnects
\* or waits to, while the writer writes, paces or idles, while the bus tasks
\* connect, are connected or back off, while the pollers sleep.
ShutdownTime == 6

InitShutdown ==
    InitWith(Env(0, 1, 0, {}, 0, {}, {}, MaxBusErrs,
                 {"SIGTERM"}, ShutdownTime))

NextShutdown ==
    \/ Tick \/ StartTasks
    \/ SrOpenOk \/ SrOpenFail \/ SrSettled \/ SrRetry \/ SrCancelled
    \/ SwGet \/ SwDrained \/ SwWake \/ SwCancelled \/ SwClosed
    \/ MwConnected \/ MwError \/ MwBackoff \/ MwGet \/ MwPublished
    \/ MwCancelled \/ MwFinalPublished
    \/ MrConnected \/ MrError \/ MrBackoff
    \/ (\E p \in Pollers : PollWake(p))
    \/ (\E s \in Signals : Signal(s) \/ DisconnectCancel(s) \/ DisconnectGathered(s))
    \/ MainStep \/ MainWake \/ RunCleanup

SpecShutdown ==
    InitShutdown /\ [][NextShutdown]_vars /\ WF_vars(Progress /\ NextShutdown)

\* C1: any two consecutive writes of serial_writer on the device link are at
\* least WritePace (3) seconds apart, whatever the commands queued and
\* whatever the disconnects and reconnects of the device in between.
WritePacing == obs.writeGap = NoTime \/ obs.writeGap >= WritePace

\* two commands were queued together, the device dropped and came back, and
\* two writes happened exactly 3 seconds apart
WritePacingWitness ==
    /\ Len(written) >= 2
    /\ obs.writeGap = WritePace
    /\ env.drops < MaxDrops
    /\ connected

\* C6: the commands are written in the order in which they were put on
\* serial_queue, none skipped and none twice: the i-th write is the i-th
\* command queued, and what is queued is what follows the writes, in order.
WriteOrder ==
    /\ \A i \in 1..Len(written) : written[i].id = i
    /\ \A i \in 1..Len(serial_queue) : serial_queue[i].id = Len(written) + i
    /\ Len(written) + Len(serial_queue) = nCmd

\* a raw bus command, a restart and a poller's command were written, with
\* more still queued behind the pacing sleep
WriteOrderWitness ==
    /\ Len(written) >= 2
    /\ \E i, j \in 1..Len(written) :
          i < j /\ written[i].name = "raw" /\ written[j].name = "get_device_info"
    /\ serial_queue # << >>
    /\ pc[SW] = "pace"
\* C4: connect never gives up.  While no shutdown has been requested the
\* reader task has not ended, every attempt after a transport error on
\* opening the link starts at least ReconnectDelay seconds after that error,
\* the reader reads lines only in the connected state, and an attempt or a
\* wait for the next attempt leads to the connected state (or to a shutdown
\* request) when the link can be opened.
ConnectNeverGivesUp ==
    /\ [](obs.retryGap = NoTime \/ obs.retryGap >= ReconnectDelay)
    /\ [](~disconnecting => pc[SR] \in {"new", "open", "retry", "settle", "readline"})
    /\ [](~disconnecting /\ pc[SR] = "readline" => connected)
    /\ ((pc[SR] \in {"open", "retry"}) ~> (connected \/ disconnecting))

\* every transport error the environment holds has happened on opening, the
\* attempts were ReconnectDelay apart, and the reader is connected and reads
ConnectNeverGivesUpWitness ==
    /\ env.openFails = 0 /\ obs.retryGap = ReconnectDelay
    /\ connected /\ ~disconnecting /\ pc[SR] = "readline"

\* C2 as stated: while the device is disconnected after a drop, exactly one
\* status event with connected=false has been put on the queue, by whatever
\* task, it was there when the first reconnect attempt started, and the
\* marker file has been removed exactly once.
DisconnectStatusOnce ==
    obs.episode =>
        /\ obs.falseByReader + obs.falseByOther = 1
        /\ obs.statusAtAttempt = 1
        /\ obs.removed = 1

\* C2, amended: while the device is disconnected after a drop, serial_reader
\* has put exactly one status event with connected=false on the queue, it
\* did so before the first reconnect attempt started, and the marker file
\* has been removed exactly once and is absent; send_discovery may put
\* further status events with connected=false in the meantime.
DisconnectStatusByReaderOnce ==
    obs.episode =>
        /\ obs.falseByReader = 1
        /\ obs.statusAtAttempt = 1
        /\ obs.removed = 1
        /\ ~marker

\* the link has dropped, the reader is about to reconnect, and send_discovery
\* has put a status event of its own in the meantime
DisconnectStatusWitness ==
    /\ obs.episode /\ ~connected /\ pc[SR] = "open"
    /\ obs.falseByReader = 1 /\ obs.falseByOther >= 1 /\ obs.removed = 1

\* C3 as stated: every change of the connected flag is followed by a status
\* event that carries the new value; when the program has exited, the last
\* change has been followed by one.
StatusFollowsChange == Exited => obs.announced

\* C5: the events are published in the order in which they were put on
\* mqtt_queue: the ids published increase, and every event still queued or
\* in flight was put after every event published.
PublishOrder ==
    /\ \A i, j \in 1..Len(published) : i < j => published[i] < published[j]
    /\ \A i, j \in 1..Len(mqtt_queue) : i < j => mqtt_queue[i].id < mqtt_queue[j].id
    /\ \A i \in 1..Len(published) :
          /\ \A j \in 1..Len(mqtt_queue) : published[i] < mqtt_queue[j].id
          /\ \A j \in 1..Len(held) : published[i] < held[j].id

\* events were published before an MqttError and again after the writer had
\* connected anew, the decoded DeviceInfo among them
PublishOrderWitness ==
    /\ obs.pubAtError >= 1 /\ Len(published) > obs.pubAtError
    /\ \E i \in 1..Len(published) : published[i] = device_info

\* C7 as stated: a set_current_price message whose payload is text that
\* is not a price, handled when the device is known, puts no command on
\* serial_queue and leaves mqtt_reader running.
BadPriceHandled ==
    \A i \in 1..Len(obs.handled) :
        LET h == obs.handled[i] IN
        (/\ h.topic = "set_current_price" /\ h.known
         /\ h.payload # Undecodable /\ format_price_raises(h.payload))
        => h.queued = 0 /\ pc[MR] # "failed"

\* C8: handling a message whose payload does not decode, on a topic other
\* than restart and close_current_period, changes neither the queues nor the
\* session and leaves mqtt_reader at the next message; a restart message
\* puts the restart command and, when the device is known, a
\* close_current_period message puts its three commands, whatever the payload.
UndecodableSkipped ==
    [][ Len(obs'.handled) = Len(obs.handled) + 1 =>
          LET m == Head(inbox) IN
          /\ (m.payload = Undecodable
                 /\ m.topic \notin {"restart", "close_current_period"})
              => /\ UNCHANGED << serial_queue, mqtt_queue, nCmd, nMsg, connected,
                                disconnecting, device_info, marker, buffer,
                                poll_offset, writer >>
                 /\ pc'[MR] = "listen"
          /\ m.topic = "restart"
              => /\ Len(serial_queue') = Len(serial_queue) + 1
                 /\ serial_queue'[Len(serial_queue')].name = "restart"
                 /\ pc'[MR] = "listen"
          /\ (m.topic = "close_current_period" /\ device_info # 0)
              => /\ Len(serial_queue') = Len(serial_queue) + 3
                 /\ serial_queue'[Len(serial_queue) + 1].name = "close_current_period"
                 /\ pc'[MR] = "listen"
      ]_vars

\* a command message whose payload does not decode was skipped, and then a
\* restart message whose payload does not decode either was acted on
UndecodableSkippedWitness ==
    /\ Len(obs.handled) = 2 /\ pc[MR] = "listen"
    /\ obs.handled[1].topic = "command" /\ obs.handled[1].payload = Undecodable
    /\ obs.handled[1].queued = 0
    /\ obs.handled[2].topic = "restart" /\ obs.handled[2].payload = Undecodable
    /\ obs.handled[2].queued = 1

\* C9 as stated: while no shutdown has been requested, serial_reader has
\* not ended, whatever lines the device has sent.
ReaderSurvives == ~disconnecting => pc[SR] \notin Ended

\* C10: once a termination signal has set disconnecting, every task ends
\* and asyncio.run returns.
ShutdownCompletes == disconnecting ~> Exited

\* the program has exited after a signal that came while the reader was
\* reading, the writer was in its pacing delay, mqtt_reader was connected
\* and mqtt_writer was backing off (the pollers sleep from their first step)
ShutdownCompletesWitness ==
    /\ Exited /\ disconnecting
    /\ obs.atSignal[SR] = "readline" /\ obs.atSignal[SW] = "pace"
    /\ obs.atSignal[MR] = "listen" /\ obs.atSignal[MW] = "mw_backoff"

\* C11: in the step in which serial_writer ends, by a cancellation or by
\* leaving its loop, a device link that has been opened is closed; and while
\* the writer waits for the link to close after a cancellation, the link has
\* been closed.
WriterClosesLink ==
    [][ /\ (pc[SW] \notin Ended /\ pc'[SW] \in Ended /\ writer # "none")
           => writer' = "closed"
        /\ pc'[SW] = "closing" => writer' = "closed"
      ]_vars

\* the writer was in its pacing delay when the signal came, was cancelled
\* there, has closed the link and has ended
WriterClosesLinkWitness ==
    /\ obs.atSignal[SW] = "pace" /\ pc[SW] \in Ended /\ writer = "closed"
    /\ pc["SIGTERM"] \in Ended

\* C12 as stated: a serial_reader that has ended by a cancellation has set
\* connected to false and the last status event put carries connected=false.
ReaderCancelMarks ==
    pc[SR] = "cancelled" => ~connected /\ obs.lastStatus = "down"

\* C13: disconnecting starts false, no step sets it back to false, and a
\* step sets it to true only by creating the disconnect task of a signal.
DisconnectingMonotone ==
    /\ ~disconnecting
    /\ [][ /\ disconnecting => disconnecting'
           /\ (~disconnecting /\ disconnecting')
                => \E s \in Signals : pc[s] = "absent" /\ pc'[s] = "grace"
         ]_vars

\* the flag was set by a signal that came while the reader waited to
\* reconnect, and it is still set when the program has exited
DisconnectingMonotoneWitness ==
    disconnecting /\ Exited /\ obs.atSignal[SR] = "retry"

\* C14: the healthcheck file is touched only when its existence changes: it
\* is written only when it is absent and the device is connected, unlinked
\* only when it exists and the device is not connected, and a second call of
\* healthcheck_status with the same connected value does nothing.
MarkerOnTransition ==
    /\ [](\A c, e \in BOOLEAN : healthcheck_op(c, healthcheck_status(c, e)) = "none")
    /\ [][ /\ obs'.markerOps # obs.markerOps => marker' # marker
           /\ marker' # marker => obs'.markerOps = obs.markerOps + 1
           /\ (~marker /\ marker') => (connected \/ connected')
           /\ (marker /\ ~marker') => (~connected \/ ~connected')
         ]_vars

\* the file was written at the connect, unlinked at the drop, and left alone
\* by the status event that send_discovery put while the device was
\* disconnected
MarkerOnTransitionWitness ==
    /\ obs.markerOps = 2 /\ ~marker /\ ~connected
    /\ obs.falseByOther >= 1 /\ obs.lastStatus = "down"

\* C15: a completed frame whose tag has no registered response class is
\* rejected: the closing line empties the buffer, and the cached identity,
\* the device->bus queue and the count of messages made stay as they were
UnknownTagRejected ==
    [][ ( /\ env'.lines = env.lines - 1
          /\ buffer # << >> /\ buffer' = << >>
          /\ WellFormed(obs'.lastFrame)
          /\ SubSeq(obs'.lastFrame, 1, Len(buffer)) = buffer
          /\ obs'.lastFrame[1].tag \notin ResponseTypes )
        => /\ UNCHANGED << device_info, mqtt_queue, nMsg, serial_queue >>
           /\ Len(obs'.lastFrame) = Len(buffer) + 1
      ]_vars

UnknownTagRejectedWitness ==
    /\ obs.lastFrame = << Line("open", "Foo"), Line("field", "DeviceMacId"),
                          Line("close", "Foo") >>
    /\ buffer = << >> /\ pc[SR] = "readline"
    /\ device_info = 0 /\ env.lines = MaxLines - 3

\* C16 as stated: every completed, well-formed frame of a registered class
\* that carries at least one field is decoded, and its response is put on
\* the device->bus queue, whether or not a field its class converts is there
MissingFieldDefaulted ==
    [][ ( /\ env'.lines = env.lines - 1
          /\ buffer # << >> /\ buffer' = << >>
          /\ WellFormed(obs'.lastFrame)
          /\ SubSeq(obs'.lastFrame, 1, Len(buffer)) = buffer
          /\ Len(obs'.lastFrame) >= 3
          /\ obs'.lastFrame[1].tag \in ResponseTypes )
        => /\ nMsg' = nMsg + 1
           /\ mqtt_queue' = Append(mqtt_queue,
                  Message(response_key(obs'.lastFrame[1].tag), nMsg + 1))
      ]_vars

\* C17: handling a message whose payload decodes does the one thing its
\* topic selects and nothing else: command appends the payload as it is to
\* the bus->device queue; restart, close_current_period, reinitialize and
\* set_current_price call their workflow; birth calls reinitialize when the
\* payload is "online" and otherwise appends nothing
TopicSelectsAction ==
    [][ (Len(obs'.handled) = Len(obs.handled) + 1 /\ Head(inbox).payload # Undecodable)
        => LET m == Head(inbox)
               added == SubSeq(serial_queue', Len(serial_queue) + 1, Len(serial_queue'))
               names == [i \in 1..Len(added) |-> added[i].name]
               reinit == /\ names = << "get_device_info" >>
                         /\ pc'[MR] = "ri_first" /\ wake'[MR] = now + ReinitFirst
           IN
           /\ SubSeq(serial_queue', 1, Len(serial_queue)) = serial_queue
           /\ UNCHANGED << mqtt_queue, nMsg, device_info, connected, disconnecting >>
           /\ m.topic = "command"
                => /\ names = << "raw" >> /\ added[1].text = m.payload
                   /\ pc'[MR] = "listen"
           /\ m.topic = "restart"
                => names = << "restart" >> /\ pc'[MR] = "listen"
           /\ m.topic = "close_current_period"
                => /\ names = IF device_info # 0
                                THEN << "close_current_period",
                                        "get_current_period_usage",
                                        "get_last_period_usage" >>
                                ELSE << >>
                   /\ pc'[MR] = "listen"
           /\ m.topic = "reinitialize" => reinit
           /\ m.topic = "birth"
                => IF m.payload = "online"
                     THEN reinit
                     ELSE names = << >> /\ pc'[MR] = "listen"
           /\ m.topic = "set_current_price"
                => \/ names = << "set_current_price" >> /\ pc'[MR] = "price_wait"
                   \/ names = << >> /\ pc'[MR] = "listen" /\ device_info = 0
                   \/ names = << >> /\ pc'[MR] = "failed"
      ]_vars

\* a birth message whose payload is not "online" was handled and queued
\* nothing; the next one, with "online", started reinitialize
TopicSelectsActionWitness ==
    /\ Len(obs.handled) = 2 /\ pc[MR] = "ri_first"
    /\ obs.handled[1].topic = "birth" /\ obs.handled[1].payload = "31.50"
    /\ obs.handled[1].queued = 0
    /\ obs.handled[2].topic = "birth" /\ obs.handled[2].payload = "online"
    /\ obs.handled[2].queued = 1

\* C18: the decoded price of a PriceCluster is None when the raw price is
\* the text 0xffffffff, whatever the trailing digits; for every other raw
\* price p with trailing digits t it is p / 10^(t - 2); 0x0000013b with 0x03
\* gives 31.5
PriceDecode ==
    (calc.op = "PriceCluster" /\ calc.done)
    => LET q == calc.result
           t == to_int(calc.trailing_digits)
       IN
       IF calc.price = Sentinel
         THEN q.none
         ELSE /\ ~q.none /\ q.d > 0
              /\ IF t >= 2 THEN q.n * 10 ^ (t - 2) = to_int(calc.price) * q.d
                           ELSE q.n = to_int(calc.price) * 10 ^ (2 - t) * q.d
              /\ (/\ calc.price = << "0", "x", "0", "0", "0", "0", "0", "1", "3", "b" >>
                  /\ calc.trailing_digits = << "0", "x", "0", "3" >>)
                 => 2 * q.n = 63 * q.d

PriceDecodeWitness ==
    /\ calc.op = "PriceCluster" /\ calc.done
    /\ calc.price = << "0", "x", "0", "0", "0", "0", "0", "1", "3", "b" >>
    /\ calc.trailing_digits = << "0", "x", "0", "3" >>
    /\ calc.result = Number(315, 10)

\* C19 as stated: for every cents text of the set, fractional or whole,
\* format_price returns a pair, and the price decoded from a PriceCluster
\* carrying the pair equals the cents; format_price('31.50') is
\* (hex 315, hex 3) and format_price('1.11') is (hex 111, hex 4)
PriceRoundTrip ==
    (calc.op = "format_price" /\ calc.stage # "new")
    => /\ ~calc.pair.raised
       /\ calc.cents = << "3", "1", ".", "5", "0" >>
            => calc.pair = Returned(to_hex(315), to_hex(3))
       /\ calc.cents = << "1", ".", "1", "1" >>
            => calc.pair = Returned(to_hex(111), to_hex(4))
       /\ calc.stage = "decoded"
            => LET c == Decimal(calc.cents) IN
               /\ ~calc.result.none
               /\ calc.result.n * 10 ^ (0 - c.e) = c.c * calc.result.d

\* C20 as stated: a frame is parsed from lines of one connection only: when
\* a closing line completes a frame, no line of the text handed to the parser
\* was read before the last transport error
FrameWithinConnection ==
    [][ (env'.lines = env.lines - 1 /\ obs'.lastFrame # << >> /\ buffer' = << >>
         /\ obs'.lastFrame = Append(buffer, obs'.lastFrame[Len(obs'.lastFrame)]))
        => obs.stale = 0
      ]_vars

\* C21: a line that is read either is no closing line and is appended to
\* the buffer, or is a closing line and completes a frame: the buffer is
\* empty afterwards whether or not the text was decoded, and a text that is
\* exactly one well-formed frame of a registered class is enqueued exactly
\* once, anything else not at all. The buffer is emptied by nothing else.
FrameAssembly ==
    [][ /\ (env'.lines = env.lines - 1 /\ pc'[SR] # "failed")
            => \/ /\ Len(buffer') = Len(buffer) + 1
                  /\ SubSeq(buffer', 1, Len(buffer)) = buffer
                  /\ buffer'[Len(buffer')].t # "close"
                  /\ UNCHANGED << mqtt_queue, nMsg, device_info >>
               \/ /\ buffer' = << >>
                  /\ Len(obs'.lastFrame) = Len(buffer) + 1
                  /\ SubSeq(obs'.lastFrame, 1, Len(buffer)) = buffer
                  /\ obs'.lastFrame[Len(obs'.lastFrame)].t = "close"
                  /\ LET f == obs'.lastFrame
                         whole == /\ WellFormed(f) /\ Len(f) >= 3
                                  /\ f[1].tag \in ResponseTypes
                                  /\ RequiredFields(f[1].tag) \subseteq
                                        {f[i].tag : i \in 2..(Len(f) - 1)}
                     IN IF whole
                          THEN /\ nMsg' = nMsg + 1
                               /\ mqtt_queue' = Append(mqtt_queue,
                                      Message(response_key(f[1].tag), nMsg'))
                          ELSE UNCHANGED << mqtt_queue, nMsg, device_info >>
        /\ (buffer # << >> /\ buffer' = << >>) => env'.lines = env.lines - 1
      ]_vars

\* a closing line alone was rejected, and the DeviceInfo frame that came
\* next was decoded and enqueued once
FrameAssemblyWitness ==
    /\ env.lines = MaxLines - 4 /\ buffer = << >> /\ pc[SR] = "readline"
    /\ obs.lastFrame = << Line("open", "DeviceInfo"), Line("field", "DeviceMacId"),
                          Line("close", "DeviceInfo") >>
    /\ device_info # 0
    /\ Cardinality({i \in 1..Len(mqtt_queue) : mqtt_queue[i].kind = "device_info"}) = 1

\* C22: when a sleep of a poller ends while no shutdown is requested, the
\* poller puts its command on the bus->device queue only if the device is
\* connected; if it is not, the queue stays as it is and the poller sleeps
\* the 5 seconds of the backoff, not its interval
PollerSkipsDisconnected ==
    [][ \A p \in Pollers :
          ( /\ pc[p] \in {"poll_init", "poll_backoff", "poll_wait"}
            /\ pc'[p] \in {"poll_backoff", "poll_wait"}
            /\ wake'[p] # wake[p] )
          => IF connected
               THEN /\ pc'[p] = "poll_wait" /\ wake'[p] = now + PollFrequency(p)
                    /\ \A i \in (Len(serial_queue) + 1)..Len(serial_queue') :
                           serial_queue'[i].name = PollCommand(p)
               ELSE /\ UNCHANGED << serial_queue, nCmd >>
                    /\ pc'[p] = "poll_backoff" /\ wake'[p] = now + 5
      ]_vars

\* the first poller woke while the device was disconnected and backs off;
\* nothing was written to the device
PollerSkipsDisconnectedWitness ==
    /\ pc["device_task"] = "poll_backoff" /\ wake["device_task"] = now + 5
    /\ ~connected /\ ~disconnecting /\ nCmd = 0

\* C23 as stated: the k-th poller created sleeps 5k seconds before its
\* loop, and no two pollers call their command for the first time at the
\* same instant (a poller in the sleep of its interval called it at the
\* start of that sleep; no interval has ended yet)
StaggeredStart ==
    LET order == SelectSeq(TaskOrder, LAMBDA t : t \in Pollers)
        called(p) == wake[p] - PollFrequency(p)
    IN
    /\ \A k \in 1..Len(order) :
          pc[order[k]] = "poll_init" => wake[order[k]] = 5 * k
    /\ \A p, q \in Pollers :
          (p # q /\ pc[p] = "poll_wait" /\ pc[q] = "poll_wait")
          => called(p) # called(q)

\* C24 as stated: reinitialize calls get_device_info first and
\* send_discovery second, and the calls it has made after those together
\* with the calls its loop has still to make request each of the other
\* monitored quantities: connection status, clock, price, cumulative totals,
\* current-period usage and last-period usage
ReinitSequence ==
    (obs.reinit.calls # << >> /\ ~obs.reinit.done)
    => LET made == obs.reinit.calls
           left == IF Len(made) <= 2 THEN ReinitTasks
                   ELSE SubSeq(ReinitTasks, riStep + 1, Len(ReinitTasks))
           rest == SubSeq(made, 3, Len(made)) \o left
       IN
       /\ made[1] = "get_device_info"
       /\ Len(made) >= 2 => made[2] = "send_discovery"
       /\ \A q \in {"get_connection_status", "get_time", "get_current_price",
                     "get_current_summation_delivered",
                     "get_current_period_usage", "get_last_period_usage"} :
             \E i \in 1..Len(rest) : rest[i] = q

\* C25: the identity fact changes only in the step in which a closing line
\* completes a DeviceInfo frame that decodes, and then becomes that whole
\* response; the clock-offset fact changes only in the step in which a
\* closing line completes a TimeCluster frame that decodes, and then becomes
\* that whole response with the offset of its LocalTime; a closing line
\* whose text is rejected leaves both facts as they were.
FactsSingleWriter ==
    [][ LET f == obs'.lastFrame
            closes == /\ env'.lines = env.lines - 1 /\ pc'[SR] # "failed"
                      /\ buffer' = << >> /\ f = Append(buffer, f[Len(f)])
        IN
        /\ device_info' # device_info
             => /\ closes /\ Decodes(f) /\ f[1].tag = "DeviceInfo"
                /\ nMsg' = nMsg + 1 /\ device_info' = nMsg'
        /\ time_cluster' # time_cluster
             => /\ closes /\ Decodes(f) /\ f[1].tag = "TimeCluster"
                /\ nMsg' = nMsg + 1
                /\ time_cluster' = TimeCluster_format(Element(f, "LocalTime").text,
                                                      nMsg', now)
        /\ (closes /\ ~Decodes(f)) => UNCHANGED << device_info, time_cluster >>
      ]_vars

\* both facts are cached, two TimeCluster frames were decoded and the fact
\* is the response of the later one, and the frame read last, a TimeCluster
\* without LocalTime, was rejected
FactsSingleWriterWitness ==
    /\ device_info # 0 /\ buffer = << >>
    /\ \E i, j \in 1..Len(mqtt_queue) :
          /\ i < j /\ mqtt_queue[i].kind = "time_cluster"
          /\ mqtt_queue[j].kind = "time_cluster"
          /\ time_cluster.id = mqtt_queue[j].id
          /\ nMsg = mqtt_queue[j].id
    /\ Len(obs.lastFrame) = 3 /\ obs.lastFrame[1].tag = "TimeCluster"

\* C26: every response of the Demand family on the device->bus queue was
\* decoded with the clock offset of the TimeCluster response enqueued last
\* before it, whether or not the link was reopened in between: its time
\* stamp and end date are the reported values plus that offset, its start
\* date is that sum rounded down to five minutes. A response that no
\* TimeCluster response precedes has no offset and no reported_ attribute,
\* and its three dates are the texts of the frame.
DemandUsesLatestOffset ==
    \A j \in 1..Len(mqtt_queue) :
       mqtt_queue[j].kind = "last_period_usage"
       => LET b == mqtt_queue[j].body
              prior == {i \in 1..(j - 1) : mqtt_queue[i].kind = "time_cluster"}
          IN IF prior = {}
               THEN /\ b.local_time_offset = Absent
                    /\ b.reported_time_stamp = Absent
                    /\ b.reported_start_date = Absent
                    /\ b.reported_end_date = Absent
                    /\ b.time_stamp = Element(LastPeriodFrame, "TimeStamp")
                    /\ b.start_date = Element(LastPeriodFrame, "StartDate")
                    /\ b.end_date = Element(LastPeriodFrame, "EndDate")
               ELSE LET last == CHOOSE i \in prior : \A k \in prior : k <= i
                        o == mqtt_queue[last].body.local_time_offset.n
                    IN /\ b.local_time_offset = IntAttr(o)
                       /\ b.reported_time_stamp = IntAttr(2000)
                       /\ b.reported_start_date = IntAttr(1205)
                       /\ b.reported_end_date = IntAttr(1500)
                       /\ b.time_stamp = IntAttr(2000 + o)
                       /\ b.end_date = IntAttr(1500 + o)
                       /\ b.start_date = IntAttr((1205 + o) - ((1205 + o) % 300))

\* a LastPeriodUsage frame was decoded before any TimeCluster frame; then a
\* TimeCluster frame was decoded, the link failed and was reopened, a second
\* TimeCluster frame gave another offset, and a LastPeriodUsage frame was
\* decoded after it
DemandUsesLatestOffsetWitness ==
    \E h, i, j, k \in 1..Len(mqtt_queue) :
       /\ h < i /\ i < j /\ j < k /\ k = Len(mqtt_queue)
       /\ mqtt_queue[h].kind = "last_period_usage"
       /\ mqtt_queue[h].body.local_time_offset = Absent
       /\ mqtt_queue[i].kind = "time_cluster"
       /\ \E d \in (i + 1)..(j - 1) : mqtt_queue[d].kind = "status" /\ ~mqtt_queue[d].conn
       /\ mqtt_queue[j].kind = "time_cluster"
       /\ mqtt_queue[j].body # mqtt_queue[i].body
       /\ mqtt_queue[k].kind = "last_period_usage"
       /\ mqtt_queue[k].body.local_time_offset = mqtt_queue[j].body.local_time_offset

\* C27: for a raw start date r > 0 and a clock offset o, the decoded
\* start_date is (r + o) - ((r + o) mod 300): a multiple of 300 that is at
\* most r + o and less than 300 below it; reported_start_date is r; and
\* time_stamp and end_date are their raw values plus o, not rounded.
TimeAdjustment ==
    (calc.op = "Demand" /\ calc.done)
    => LET r == calc.raw
           o == calc.offset
           b == calc.result
       IN /\ b.start_date = IntAttr((r + o) - ((r + o) % 300))
          /\ b.start_date.n % 300 = 0
          /\ 0 <= (r + o) - b.start_date.n /\ (r + o) - b.start_date.n < 300
          /\ b.reported_start_date = IntAttr(r)
          /\ b.time_stamp = IntAttr(to_int(calc.time_stamp) + o)
          /\ b.end_date = IntAttr(to_int(calc.end_date) + o)
          /\ b.reported_time_stamp = IntAttr(to_int(calc.time_stamp))
          /\ b.reported_end_date = IntAttr(to_int(calc.end_date))

\* a start date above five minutes moved by a negative offset to a sum that
\* is still above: start_date is 300, and the time stamp 2000 is moved only
TimeAdjustmentWitness ==
    /\ calc.op = "Demand" /\ calc.done
    /\ calc.raw > 300 /\ calc.offset < 0 /\ calc.raw + calc.offset > 300
    /\ calc.result.start_date = IntAttr(300)
    /\ calc.result.time_stamp = IntAttr(2000 + calc.offset)

\* C28: every command written to the link was written while the device was
\* connected: none between the reader's detection of a transport error and
\* the end of the reconnect that follows.
WritesWhileConnected ==
    \A i \in 1..Len(written) : written[i].conn

\* C29: no event is published twice, and an event that mqtt_writer had taken
\* from the device->bus queue when MqttError was raised is neither on the
\* queue again nor published afterwards.
PublishedAtMostOnce ==
    /\ \A i, j \in 1..Len(published) : published[i] = published[j] => i = j
    /\ \A id \in obs.dropped :
          /\ \A i \in 1..Len(published) : published[i] # id
          /\ \A i \in 1..Len(mqtt_queue) : mqtt_queue[i].id # id
          /\ \A i \in 1..Len(held) : held[i].id # id

\* an event was in publish when MqttError was raised; the writer connected
\* again and published a later event
PublishedAtMostOnceWitness ==
    /\ obs.dropped # {}
    /\ Len(published) > obs.pubAtError
    /\ \A id \in obs.dropped : published[Len(published)] > id

\* C30: the identity fact, once set, stays set; and in a step taken while it
\* is not set, every command put on the bus->device queue is
\* get_device_info, get_time, restart or a raw command, and no discovery
\* message is put on the device->bus queue.
IdentityGating ==
    [][ /\ device_info # 0 => device_info' # 0
        /\ device_info = 0
             => /\ \A i \in 1..Len(serial_queue') :
                      serial_queue'[i].id > nCmd
                      => serial_queue'[i].name \in Ungated \cup {"raw"}
                /\ \A i \in 1..Len(mqtt_queue') :
                      mqtt_queue'[i].id > nMsg => mqtt_queue'[i].kind # "discovery"
      ]_vars

\* a close_current_period message was handled before the DeviceInfo was
\* decoded and queued nothing; with the identity set, connection_task queued
\* get_connection_status and queue_discovery the discovery messages
IdentityGatingWitness ==
    /\ device_info # 0
    /\ \E h \in 1..Len(obs.handled) :
          /\ obs.handled[h].topic = "close_current_period"
          /\ ~obs.handled[h].known /\ obs.handled[h].queued = 0
    /\ \E i \in 1..Len(serial_queue) : serial_queue[i].name = "get_connection_status"
    /\ \E i \in 1..Len(mqtt_queue) : mqtt_queue[i].kind = "discovery"

\* C31: a bus message is acted on only while mqtt_reader waits for a
\* message, and it is the one that arrived first of those not yet handled;
\* while reinitialize or set_current_price is in one of its delays no
\* message is handled and those that arrive wait; so the messages handled,
\* followed by those waiting, are always the messages in arrival order.
OneMessageAtATime ==
    [][ LET Delays == {"price_wait", "ri_first", "ri_disc", "ri_second", "ri_each"}
            n == Len(obs.handled)
            key(h) == [topic |-> h.topic, payload |-> h.payload]
        IN
        /\ obs'.handled # obs.handled
             => /\ pc[MR] = "listen" /\ inbox # << >>
                /\ Len(obs'.handled) = n + 1
                /\ SubSeq(obs'.handled, 1, n) = obs.handled
                /\ key(obs'.handled[n + 1]) = Head(inbox)
                /\ inbox' = Tail(inbox)
        /\ pc[MR] \in Delays
             => /\ obs'.handled = obs.handled
                /\ Len(inbox') >= Len(inbox)
                /\ SubSeq(inbox', 1, Len(inbox)) = inbox
        /\ [i \in 1..Len(obs'.handled) |-> key(obs'.handled[i])] \o inbox'
               = obs'.arrived
      ]_vars

\* a restart that arrived during the delay of set_current_price was handled
\* after the delay, then a reinitialize; a message that arrived since waits
\* while reinitialize is in its first delay
OneMessageAtATimeWitness ==
    /\ Len(obs.handled) = 3 /\ Len(inbox) = 1
    /\ obs.handled[1].topic = "set_current_price" /\ obs.handled[1].queued = 1
    /\ obs.handled[2].topic = "restart"
    /\ obs.handled[3].topic = "reinitialize"
    /\ pc[MR] = "ri_first"
    /\ \E i, j \in 1..Len(serial_queue) :
          /\ i < j /\ serial_queue[i].name = "get_current_price"
          /\ serial_queue[j].name = "restart"

\* C32: when the shutdown has completed, connected is false and the
\* healthcheck file does not exist, wherever the reader was when the tasks
\* were cancelled and in whatever order they handled the cancellation.
ShutdownLeavesDisconnected ==
    (disconnecting /\ Exited) => (~connected /\ ~marker)

====
